---- MODULE Spec2Model ----
(***************************************************************************)
(* Morocco events search engine: ingestion and deduplication pipeline,     *)
(* confidence scorer, search index synchronizer and editorial layer.       *)
(*                                                                         *)
(* Strings are sequences of characters ("e-acute" is one character).       *)
(* Scores are integers: reliabilities in 1/RelOne, similarities in         *)
(* 1/SimOne, confidence scores in 1/ConfOne.  Dates are day numbers        *)
(* counted from Monday 2025-06-23.  NULL is the null/undefined value.      *)
(***************************************************************************)
EXTENDS Integers, Sequences, FiniteSets, TLC

\* null for ids, dates and scores; the null string is the empty string.
NULL == -1
NullStr == <<>>

Max(a, b) == IF a >= b THEN a ELSE b
Min(a, b) == IF a <= b THEN a ELSE b
Abs(a) == IF a >= 0 THEN a ELSE 0 - a

\* const x = value; Body(x): the value is computed once and then named.
Bind(value, Body(_)) == CHOOSE r \in {Body(x) : x \in {value}} : TRUE

SetMax(S) == CHOOSE x \in S : \A y \in S : y <= x
SetMin(S) == CHOOSE x \in S : \A y \in S : x <= y

(***************************************************************************)
(* Text normalizer                                                         *)
(***************************************************************************)

Upper == <<"A", "B", "C", "D", "E", "F", "G", "H", "I", "J", "K", "L", "M",
           "N", "O", "P", "Q", "R", "S", "T", "U", "V", "W", "X", "Y", "Z">>
Lower == <<"a", "b", "c", "d", "e", "f", "g", "h", "i", "j", "k", "l", "m",
           "n", "o", "p", "q", "r", "s", "t", "u", "v", "w", "x", "y", "z">>

\* String.prototype.toLowerCase on one character.
toLowerCase(c) ==
  IF \E i \in DOMAIN Upper : Upper[i] = c
  THEN Lower[CHOOSE i \in DOMAIN Upper : Upper[i] = c]
  ELSE c

\* The combining acute/grave accents that NFD splits off (U+0300..U+036F).
CombiningMarks == {"acute", "grave"}

\* String.prototype.normalize('NFD') on one character.
NFD(c) ==
  CASE c = "e-acute" -> <<"e", "acute">>
    [] c = "e-grave" -> <<"e", "grave">>
    [] OTHER -> <<c>>

Digits == {"0", "1", "2", "3", "4", "5", "6", "7", "8", "9"}
Letters == {Lower[i] : i \in DOMAIN Lower}
Whitespace == {" "}

RECURSIVE FlatMap(_, _)
FlatMap(F(_), s) == IF s = <<>> THEN <<>> ELSE F(Head(s)) \o FlatMap(F, Tail(s))

MapSeq(F(_), s) == [i \in 1..Len(s) |-> F(s[i])]

StartsWith(s, p) == Len(s) >= Len(p) /\ SubSeq(s, 1, Len(p)) = p

Drop(s, n) == SubSeq(s, n + 1, Len(s))

StrFestival == <<"f", "e", "s", "t", "i", "v", "a", "l">>
StrFest == <<"f", "e", "s", "t">>
StrEdition == <<"e", "d", "i", "t", "i", "o", "n">>

YearLen == 4

StartsWithYear(s) == Len(s) >= YearLen /\ \A i \in 1..YearLen : s[i] \in Digits

\* .replace(/festival|fest|edition|\d{4}/gi, ''): one left-to-right pass, the
\* alternatives tried in order at each position, matches never rescanned.
RECURSIVE RemoveNoise(_)
RemoveNoise(s) ==
  IF s = <<>> THEN <<>>
  ELSE IF StartsWith(s, StrFestival) THEN RemoveNoise(Drop(s, Len(StrFestival)))
  ELSE IF StartsWith(s, StrFest) THEN RemoveNoise(Drop(s, Len(StrFest)))
  ELSE IF StartsWith(s, StrEdition) THEN RemoveNoise(Drop(s, Len(StrEdition)))
  ELSE IF StartsWithYear(s) THEN RemoveNoise(Drop(s, YearLen))
  ELSE <<Head(s)>> \o RemoveNoise(Tail(s))

\* .replace(/\s+/g, ' ')
RECURSIVE CollapseWhitespace(_)
CollapseWhitespace(s) ==
  IF s = <<>> THEN <<>>
  ELSE IF Head(s) \in Whitespace
       THEN IF Len(s) >= 2 /\ s[2] \in Whitespace
            THEN CollapseWhitespace(Tail(s))
            ELSE <<" ">> \o CollapseWhitespace(Tail(s))
       ELSE <<Head(s)>> \o CollapseWhitespace(Tail(s))

\* String.prototype.trim
RECURSIVE TrimLeft(_)
TrimLeft(s) == IF s # <<>> /\ Head(s) \in Whitespace THEN TrimLeft(Tail(s)) ELSE s

RECURSIVE TrimRight(_)
TrimRight(s) ==
  IF s # <<>> /\ s[Len(s)] \in Whitespace THEN TrimRight(SubSeq(s, 1, Len(s) - 1)) ELSE s

Trim(s) == TrimRight(TrimLeft(s))

normalizeName(name) ==
  LET lower == MapSeq(toLowerCase, name)
      nfd == FlatMap(NFD, lower)
      noMarks == SelectSeq(nfd, LAMBDA c : c \notin CombiningMarks)
      noNoise == RemoveNoise(noMarks)
      alnum == SelectSeq(noNoise, LAMBDA c : c \in Letters \cup Digits \cup Whitespace)
  IN  Trim(CollapseWhitespace(alnum))

\* candidate.normalizedName.split(' ')
RECURSIVE Split(_)
Split(s) ==
  IF \A i \in 1..Len(s) : s[i] # " " THEN <<s>>
  ELSE LET k == SetMin({i \in 1..Len(s) : s[i] = " "})
       IN  <<SubSeq(s, 1, k - 1)>> \o Split(Drop(s, k))

\* words.join(' ')
RECURSIVE Join(_)
Join(words) ==
  IF words = <<>> THEN <<>>
  ELSE IF Len(words) = 1 THEN words[1]
  ELSE words[1] \o <<" ">> \o Join(Tail(words))

FirstWordsCount == 3

\* .split(' ').slice(0, 3).join(' ')
FirstWords(s) == Join(SubSeq(Split(s), 1, Min(FirstWordsCount, Len(Split(s)))))

(***************************************************************************)
(* String distances (levenshtein, jaroWinkler)                             *)
(***************************************************************************)

RECURSIVE LevRow(_, _, _, _)
\* One row of the edit-distance table: prev is the row of a[1..i-1], the
\* result the row of a[1..i]; j is the column being filled.
LevRow(prev, ai, b, row) ==
  IF Len(row) = Len(b) + 1 THEN row
  ELSE LET j == Len(row)
           cost == IF ai = b[j] THEN 0 ELSE 1
           cell == Min(Min(prev[j + 1] + 1, row[j] + 1), prev[j] + cost)
       IN  LevRow(prev, ai, b, Append(row, cell))

RECURSIVE LevRows(_, _, _, _)
LevRows(a, b, i, prev) ==
  IF i > Len(a) THEN prev[Len(b) + 1]
  ELSE LevRows(a, b, i + 1, LevRow(prev, a[i], b, <<prev[1] + 1>>))

levenshtein(a, b) == LevRows(a, b, 1, [j \in 1..Len(b) + 1 |-> j - 1])

SimOne == 1000000
SimDigits == 3
Radix == 100

RECURSIVE Pow(_, _)
Pow(b, k) == IF k = 0 THEN 1 ELSE b * Pow(b, k - 1)

\* floor(Radix^k * x / y) by long division, so no product leaves 32 bits.
RECURSIVE ScaledDiv(_, _, _)
ScaledDiv(x, y, k) ==
  IF k = 0 THEN x \div y
  ELSE (x \div y) * Pow(Radix, k) + ScaledDiv(Radix * (x % y), y, k - 1)

MatchWindow(a, b) == Max(0, (Max(Len(a), Len(b)) \div 2) - 1)

\* Jaro matching: each character of a takes the first unused equal character
\* of b inside the window.  The result maps matched positions of a to b.
RECURSIVE JaroMatches(_, _, _, _)
JaroMatches(a, b, i, used) ==
  IF i > Len(a) THEN <<>>
  ELSE LET cand == {j \in 1..Len(b) : /\ j \notin used
                                      /\ Abs(i - j) <= MatchWindow(a, b)
                                      /\ b[j] = a[i]}
       IN  IF cand = {} THEN JaroMatches(a, b, i + 1, used)
           ELSE <<<<i, SetMin(cand)>>>> \o JaroMatches(a, b, i + 1, used \cup {SetMin(cand)})

RECURSIVE SortedSeq(_)
SortedSeq(S) == IF S = {} THEN <<>> ELSE <<SetMin(S)>> \o SortedSeq(S \ {SetMin(S)})

PrefixScale == 10
MaxPrefix == 4

RECURSIVE CommonPrefix(_, _)
CommonPrefix(a, b) ==
  IF a = <<>> \/ b = <<>> \/ Head(a) # Head(b) THEN 0
  ELSE 1 + CommonPrefix(Tail(a), Tail(b))

\* Jaro-Winkler similarity in 1/SimOne, rounded down: jaro =
\* (m/|a| + m/|b| + (m - t)/m) / 3 with t half the out-of-order matches, and
\* jw = jaro + l * 0.1 * (1 - jaro) for a common prefix of l <= 4 characters.
jaroWinkler(a, b) ==
  IF a = b THEN SimOne
  ELSE Bind(JaroMatches(a, b, 1, {}), LAMBDA ms :
       Bind(SortedSeq({ms[k][2] : k \in 1..Len(ms)}), LAMBDA bs :
       Bind(Cardinality({k \in 1..Len(ms) : a[ms[k][1]] # b[bs[k]]}), LAMBDA c :
         LET m == Len(ms)
             num == 2 * m * m * Len(b) + 2 * m * m * Len(a) + (2 * m - c) * Len(a) * Len(b)
             den == 6 * Len(a) * Len(b) * m
             l == Min(MaxPrefix, CommonPrefix(a, b))
         IN  IF m = 0 THEN 0
             ELSE ScaledDiv(PrefixScale * num + l * (den - num), PrefixScale * den,
                            SimDigits))))

(***************************************************************************)
(* Reference data and upstream records                                     *)
(***************************************************************************)

StrFes == <<"F", "e", "s">>
StrFesFr == <<"F", "e-grave", "s">>
StrFez == <<"F", "e", "z">>
StrRabat == <<"R", "a", "b", "a", "t">>
StrAgadir == <<"A", "g", "a", "d", "i", "r">>
StrRiad == <<"R", "i", "a", "d">>
StrDar == <<"D", "a", "r">>

\* The cities table, in id order (only Fes and Rabat are known).
cities ==
  << [id |-> 1, region_id |-> 1, name |-> StrFes, name_fr |-> StrFesFr],
     [id |-> 2, region_id |-> 2, name |-> StrRabat, name_fr |-> StrRabat] >>

\* The venues table.
venues ==
  << [id |-> 1, name |-> StrRiad],
     [id |-> 2, name |-> StrDar] >>

RelOne == 100

\* The sources table: first-party API 0.8, official website 1.0, scrape 0.5;
\* accuracy is the long-term accuracy on record (NULL: unknown).
sourcesTable ==
  << [id |-> 1, source_type |-> "eventbrite_api", reliabilityScore |-> 80, accuracy |-> NULL],
     [id |-> 2, source_type |-> "official_website", reliabilityScore |-> 100, accuracy |-> 100],
     [id |-> 3, source_type |-> "scrape", reliabilityScore |-> 50, accuracy |-> NULL] >>

SourceIds == {sourcesTable[i].id : i \in DOMAIN sourcesTable}

getSource(sourceId) == sourcesTable[CHOOSE i \in DOMAIN sourcesTable : sourcesTable[i].id = sourceId]

StrGnaouaFest == <<"G", "n", "a", "o", "u", "a", " ", "F", "e", "s", "t">>
StrGnaoua2025 == <<"G", "n", "a", "o", "u", "a", " ", "2", "0", "2", "5">>
StrGnaouaWorld == <<"G", "n", "a", "o", "u", "a", " ", "W", "o", "r", "l", "d">>
StrALaO == <<"A", " ", "l", "a", " ", "O">>
StrALaOLong == <<"A", " ", "l", "a", " ", "O", " ", "M", "a", "r", "r", "a", "k", "e",
                 "c", "h", " ", "X">>
StrTimitar == <<"T", "i", "m", "i", "t", "a", "r">>

\* 2025-06-26 and 2025-06-27 as day numbers, and an end date.
Day26 == 3
Day27 == 4
Day29 == 6

\* An EventCandidate as an adapter's normalize(raw) returns it.
Record(name, start, end, city, venue, source, ext) ==
  [ rawName |-> name, rawStartDate |-> start, rawEndDate |-> end, rawCity |-> city,
    rawVenue |-> venue, rawData |-> [start_date |-> start, venue |-> venue],
    sourceId |-> source, externalId |-> ext ]

RecA1 == Record(StrGnaouaFest, Day26, NULL, StrFes, NullStr, 1, "EB-123")
RecA2 == Record(StrALaO, Day26, NULL, StrFes, StrRiad, 1, "EB-200")
RecB1 == Record(StrGnaoua2025, Day26, Day29, StrFesFr, StrRiad, 2, "OFF-1")
RecB2 == Record(StrALaOLong, Day26, NULL, StrFez, NullStr, 2, "OFF-2")
RecC1 == Record(StrGnaouaFest, Day27, NULL, StrFez, NullStr, 3, "SC-1")
RecC2 == Record(StrGnaouaWorld, Day26, NULL, StrFes, NullStr, 3, "SC-2")
RecC3 == Record(StrALaOLong, Day26, NULL, StrFes, StrDar, 3, "SC-3")
RecC4 == Record(StrTimitar, Day26, NULL, StrAgadir, NullStr, 3, "SC-4")

\* Everything the upstream sources can serve.
UpstreamRecords == {RecA1, RecA2, RecB1, RecB2, RecC1, RecC2, RecC3, RecC4}

(***************************************************************************)
(* Normalization                                                           *)
(***************************************************************************)

\* Array.prototype.find: the index of the first element satisfying P, 0 if none.
Find(seq, P(_)) ==
  IF \E i \in DOMAIN seq : P(seq[i])
  THEN SetMin({i \in DOMAIN seq : P(seq[i])})
  ELSE 0

MaxCityDistance == 2

matchCity(rawCity) ==
  IF rawCity = NullStr THEN NULL
  ELSE Bind(normalizeName(rawCity), LAMBDA normalized :
       Bind(Find(cities, LAMBDA c : \/ normalizeName(c.name) = normalized
                                    \/ normalizeName(c.name_fr) = normalized), LAMBDA exact :
         IF exact # 0 THEN cities[exact].id
         ELSE Bind(Find(cities, LAMBDA c :
                     levenshtein(normalizeName(c.name), normalized) <= MaxCityDistance),
                   LAMBDA fuzzy : IF fuzzy # 0 THEN cities[fuzzy].id ELSE NULL)))

\* A venue is matched by its normalized name.
matchVenue(rawVenue, rawCity) ==
  IF rawVenue = NullStr THEN NULL
  ELSE LET v == Find(venues, LAMBDA x : normalizeName(x.name) = normalizeName(rawVenue))
       IN  IF v = 0 THEN NULL ELSE venues[v].id

\* Raw dates are ISO dates, held as day numbers.
parseAndValidateDate(raw) == raw

WeekDays == 7

\* The Monday of the date's ISO week.
getWeekStart(date) == IF date = NULL THEN NULL ELSE date - (date % WeekDays)

\* The digest is collision-free: it is modelled by its tagged preimage.
sha256(text) == <<"sha256">> \o text

\* A date or an id inside a template literal.
Str(v) == IF v = NULL THEN <<"null">> ELSE <<ToString(v)>>

\* `${a}|${b}|${c}`
Template(parts) ==
  IF Len(parts) = 2 THEN parts[1] \o <<"|">> \o parts[2]
  ELSE parts[1] \o <<"|">> \o parts[2] \o <<"|">> \o parts[3]

generateFingerprints(candidate) ==
  LET firstWords == FirstWords(candidate.normalizedName)
      weekStart == getWeekStart(candidate.startDate)
  IN  << [type |-> "exact",
          value |-> sha256(Template(<<candidate.normalizedName, Str(candidate.startDate),
                                      Str(candidate.cityId)>>))],
         [type |-> "fuzzy_name",
          value |-> sha256(Template(<<firstWords, Str(candidate.startDate),
                                      Str(candidate.cityId)>>))],
         [type |-> "date_location",
          value |-> sha256(Template(<<Str(candidate.startDate), Str(candidate.cityId)>>))],
         [type |-> "week_location",
          value |-> sha256(Template(<<Str(weekStart), Str(candidate.cityId)>>))] >>

\* The fingerprints are those of the normalized fields of the object built.
normalizeCandidate(candidate) ==
  Bind([ normalizedName |-> normalizeName(candidate.rawName),
         startDate |-> parseAndValidateDate(candidate.rawStartDate),
         endDate |-> parseAndValidateDate(candidate.rawEndDate),
         cityId |-> matchCity(candidate.rawCity),
         venueId |-> matchVenue(candidate.rawVenue, candidate.rawCity) ],
       LAMBDA fields :
         candidate @@ fields @@ [fingerprints |-> generateFingerprints(fields)])

(***************************************************************************)
(* Authoritative store                                                     *)
(*                                                                         *)
(* A store value db has the tables events (id -> row), eventSources,       *)
(* fingerprints, candidates, reviewQueue, editorialActions and             *)
(* eventSnapshots, the events id sequence nextEventId, the sources'        *)
(* cursors lastFetchAt, and the tables eventGenres and eventArtists (each  *)
(* row joined with its genre's or artist's name) and eventTicketUrls.      *)
(***************************************************************************)

EmptyDb ==
  [ events |-> <<>>, eventSources |-> <<>>, fingerprints |-> {}, candidates |-> <<>>,
    reviewQueue |-> <<>>, editorialActions |-> <<>>, eventSnapshots |-> <<>>,
    nextEventId |-> 1, lastFetchAt |-> [i \in SourceIds |-> NULL],
    eventGenres |-> <<>>, eventArtists |-> <<>>, eventTicketUrls |-> <<>> ]

EventIds(db) == DOMAIN db.events

getEvent(db, eventId) == db.events[eventId]

\* The EventSource rows of an event in insertion order, each with its source.
getEventSources(db, eventId) ==
  LET rows == SelectSeq(db.eventSources, LAMBDA r : r.eventId = eventId)
  IN  [i \in DOMAIN rows |->
         rows[i] @@ [source |-> getSource(rows[i].sourceId),
                     reliability |-> getSource(rows[i].sourceId).reliabilityScore]]

createEventSource(db, row) == [db EXCEPT !.eventSources = Append(@, row)]

updateEvent(db, eventId, fields) ==
  [db EXCEPT !.events[eventId] = fields @@ @]

daysBetween(from, to) == to - from

(***************************************************************************)
(* Deduplication                                                           *)
(***************************************************************************)

FingerprintOf(fingerprints, type) ==
  fingerprints[CHOOSE i \in DOMAIN fingerprints : fingerprints[i].type = type]

BestReliability(db, eventId) ==
  LET src == getEventSources(db, eventId)
  IN  IF src = <<>> THEN 0 ELSE SetMax({src[i].reliability : i \in DOMAIN src})

\* Ties inside a bucket: highest source reliability first, then the older event.
RECURSIVE BucketOrder(_, _)
BucketOrder(db, ids) ==
  IF ids = {} THEN <<>>
  ELSE LET first == CHOOSE e \in ids : \A o \in ids :
                      \/ BestReliability(db, e) > BestReliability(db, o)
                      \/ BestReliability(db, e) = BestReliability(db, o) /\ e <= o
       IN  <<[eventId |-> first]>> \o BucketOrder(db, ids \ {first})

\* The events owning a fingerprint row of this type with the candidate's value.
findMatchesByFingerprint(db, fingerprints, type) ==
  BucketOrder(db, {f.eventId : f \in {g \in db.fingerprints :
                      /\ g.type = type
                      /\ g.value = FingerprintOf(fingerprints, type).value}})

findMatchByFingerprint(db, fingerprints, type) ==
  LET matches == findMatchesByFingerprint(db, fingerprints, type)
  IN  IF matches = <<>> THEN NULL ELSE matches[1].eventId

WeightName == 40
WeightDate == 30
WeightLocation == 20
WeightVenue == 10
WeightSum == 100
NearDays == 1
WeekSpan == 7
ScoreNear == 800000
ScoreHalf == 500000

calculateSimilarity(candidate, event) ==
  LET nameScore == jaroWinkler(candidate.normalizedName, normalizeName(event.name))
      dateScore ==
        IF candidate.startDate = event.startDate THEN SimOne
        ELSE IF Abs(daysBetween(candidate.startDate, event.startDate)) <= NearDays
             THEN ScoreNear
        ELSE IF Abs(daysBetween(candidate.startDate, event.startDate)) <= WeekSpan
             THEN ScoreHalf
        ELSE 0
      locationScore == IF candidate.cityId = event.cityId THEN SimOne ELSE 0
      venueScore ==
        IF candidate.venueId = NULL \/ event.venueId = NULL THEN ScoreHalf
        ELSE IF candidate.venueId = event.venueId THEN SimOne ELSE 0
  IN  (WeightName * nameScore + WeightDate * dateScore + WeightLocation * locationScore
         + WeightVenue * venueScore) \div WeightSum

MergeThreshold == 850000
ReviewThreshold == 700000
ExactConfidence == 950000

\* Variant: the resolver consults no fingerprint of the name, only date_location.
deduplicateCandidate_DateLocationOnly(db, candidate) ==
  LET dateLocationMatches ==
        findMatchesByFingerprint(db, candidate.fingerprints, "date_location")
      dateHit == Find(dateLocationMatches, LAMBDA m :
                   jaroWinkler(candidate.normalizedName,
                               normalizeName(getEvent(db, m.eventId).name)) >= ReviewThreshold)
  IN  IF dateHit # 0
      THEN [action |-> "review", existingEventId |-> dateLocationMatches[dateHit].eventId,
            confidence |-> jaroWinkler(candidate.normalizedName,
                             normalizeName(getEvent(db,
                               dateLocationMatches[dateHit].eventId).name)),
            matchType |-> "date_location"]
      ELSE [action |-> "create", existingEventId |-> NULL,
            confidence |-> SimOne, matchType |-> "none"]

\* Variant: the date_location rule is consulted before the fuzzy_name rule.
deduplicateCandidate_DateFirst(db, candidate) ==
  LET exactMatch == findMatchByFingerprint(db, candidate.fingerprints, "exact")
      fuzzyMatches == findMatchesByFingerprint(db, candidate.fingerprints, "fuzzy_name")
      fuzzyHit == Find(fuzzyMatches, LAMBDA m :
                    calculateSimilarity(candidate, getEvent(db, m.eventId)) >= MergeThreshold)
      dateLocationMatches ==
        findMatchesByFingerprint(db, candidate.fingerprints, "date_location")
      dateHit == Find(dateLocationMatches, LAMBDA m :
                   jaroWinkler(candidate.normalizedName,
                               normalizeName(getEvent(db, m.eventId).name)) >= ReviewThreshold)
  IN  IF exactMatch # NULL
      THEN [action |-> "merge", existingEventId |-> exactMatch,
            confidence |-> ExactConfidence, matchType |-> "exact"]
      ELSE IF dateHit # 0
      THEN [action |-> "review", existingEventId |-> dateLocationMatches[dateHit].eventId,
            confidence |-> jaroWinkler(candidate.normalizedName,
                             normalizeName(getEvent(db,
                               dateLocationMatches[dateHit].eventId).name)),
            matchType |-> "date_location"]
      ELSE IF fuzzyHit # 0
      THEN [action |-> "merge", existingEventId |-> fuzzyMatches[fuzzyHit].eventId,
            confidence |-> calculateSimilarity(candidate,
                             getEvent(db, fuzzyMatches[fuzzyHit].eventId)),
            matchType |-> "fuzzy_name"]
      ELSE [action |-> "create", existingEventId |-> NULL,
            confidence |-> SimOne, matchType |-> "none"]

deduplicateCandidate(db, candidate) ==
  LET exactMatch == findMatchByFingerprint(db, candidate.fingerprints, "exact")
      fuzzyMatches == findMatchesByFingerprint(db, candidate.fingerprints, "fuzzy_name")
      fuzzyHit == Find(fuzzyMatches, LAMBDA m :
                    calculateSimilarity(candidate, getEvent(db, m.eventId)) >= MergeThreshold)
      dateLocationMatches ==
        findMatchesByFingerprint(db, candidate.fingerprints, "date_location")
      dateHit == Find(dateLocationMatches, LAMBDA m :
                   jaroWinkler(candidate.normalizedName,
                               normalizeName(getEvent(db, m.eventId).name)) >= ReviewThreshold)
  IN  IF exactMatch # NULL
      THEN [action |-> "merge", existingEventId |-> exactMatch,
            confidence |-> ExactConfidence, matchType |-> "exact"]
      ELSE IF fuzzyHit # 0
      THEN [action |-> "merge", existingEventId |-> fuzzyMatches[fuzzyHit].eventId,
            confidence |-> calculateSimilarity(candidate,
                             getEvent(db, fuzzyMatches[fuzzyHit].eventId)),
            matchType |-> "fuzzy_name"]
      ELSE IF dateHit # 0
      THEN [action |-> "review", existingEventId |-> dateLocationMatches[dateHit].eventId,
            confidence |-> jaroWinkler(candidate.normalizedName,
                             normalizeName(getEvent(db,
                               dateLocationMatches[dateHit].eventId).name)),
            matchType |-> "date_location"]
      ELSE [action |-> "create", existingEventId |-> NULL,
            confidence |-> SimOne, matchType |-> "none"]

(***************************************************************************)
(* Confidence scorer                                                       *)
(***************************************************************************)

ConfOne == 180000
FactorOne == 1800
WeightReliability == 35
WeightCompleteness == 25
WeightAgreement == 20
WeightRecency == 10
WeightHistory == 10
NoSourceReliability == 30
RequiredShare == 7
OptionalShare == 3
ShareSum == 10
DefaultStaleDays == 365
DecayDays == 90
DefaultAccuracy == 50

\* A score given in 1/RelOne as a factor in 1/FactorOne.
Factor(hundredths) == (FactorOne \div RelOne) * hundredths

normalizeDate(d) == d

calculateSourceAgreement(event, sources) ==
  IF Len(sources) <= 1 THEN FactorOne \div 2
  ELSE LET dates == SelectSeq([i \in DOMAIN sources |-> sources[i].rawData.start_date],
                              LAMBDA d : d # NULL)
           uniqueDates == {normalizeDate(dates[i]) : i \in DOMAIN dates}
           venueNames == SelectSeq([i \in DOMAIN sources |-> sources[i].rawData.venue],
                                   LAMBDA v : v # NullStr)
           normalizedVenues == [i \in DOMAIN venueNames |-> normalizeName(venueNames[i])]
           venueAgreement == \A i \in DOMAIN normalizedVenues :
                               normalizedVenues[i] = normalizedVenues[1]
           dateCompared == Len(dates) > 1
           venueCompared == Len(venueNames) > 1
           agreements == (IF dateCompared /\ Cardinality(uniqueDates) = 1 THEN 1 ELSE 0)
                         + (IF venueCompared /\ venueAgreement THEN 1 ELSE 0)
           comparisons == (IF dateCompared THEN 1 ELSE 0) + (IF venueCompared THEN 1 ELSE 0)
       IN  IF comparisons > 0 THEN (FactorOne * agreements) \div comparisons
           ELSE FactorOne \div 2

getSourceHistoricalAccuracy(sourceId) ==
  IF sourceId = NULL THEN NULL ELSE getSource(sourceId).accuracy

\* The weighted sum of the five factors, each in 1/FactorOne: a score in 1/ConfOne.
WeightedConfidence(reliability, completeness, agreement, recency, accuracy) ==
  WeightReliability * reliability + WeightCompleteness * completeness
    + WeightAgreement * agreement + WeightRecency * recency + WeightHistory * accuracy

Recency(lastVerifiedAt, now) ==
  LET daysSinceVerification ==
        IF lastVerifiedAt # NULL THEN daysBetween(lastVerifiedAt, now) ELSE DefaultStaleDays
  IN  Max(0, FactorOne - (FactorOne * daysSinceVerification) \div DecayDays)

Completeness(event) ==
  LET presentRequired == Cardinality({f \in {"name", "startDate", "cityId", "status"} :
                           CASE f = "name" -> event.name # NullStr
                             [] f = "startDate" -> event.startDate # NULL
                             [] f = "cityId" -> event.cityId # NULL
                             [] f = "status" -> event.status # ""})
      presentOptional ==
        Cardinality({f \in {"endDate", "venueId", "description", "officialWebsite"} :
          CASE f = "endDate" -> event.endDate # NULL
            [] f = "venueId" -> event.venueId # NULL
            [] f = "description" -> event.description # NullStr
            [] f = "officialWebsite" -> event.officialWebsite # NullStr})
  IN  (FactorOne * (RequiredShare * presentRequired + OptionalShare * presentOptional))
        \div (ShareSum * 4)

calculateConfidenceScore(db, eventId, now) ==
  LET event == getEvent(db, eventId)
      sources == getEventSources(db, eventId)
      sourceReliability ==
        IF Len(sources) > 0
        THEN Factor(SetMax({sources[i].source.reliabilityScore : i \in DOMAIN sources}))
        ELSE Factor(NoSourceReliability)
      accuracy == getSourceHistoricalAccuracy(
                    IF Len(sources) > 0 THEN sources[1].sourceId ELSE NULL)
      historicalAccuracy == Factor(IF accuracy # NULL THEN accuracy ELSE DefaultAccuracy)
  IN  WeightedConfidence(sourceReliability, Completeness(event),
                         calculateSourceAgreement(event, sources),
                         Recency(event.lastVerifiedAt, now), historicalAccuracy)

(***************************************************************************)
(* Merge and provenance writer                                             *)
(***************************************************************************)

\* Variant: the row is written without its event.
EventSourceRow_Unlinked(eventId, candidate) ==
  [ eventId |-> NULL, sourceId |-> candidate.sourceId,
    externalId |-> candidate.externalId, rawData |-> candidate.rawData ]

\* The row createEventSource inserts (fetchedAt, the insertion time, is left out).
EventSourceRow(eventId, candidate) ==
  [ eventId |-> eventId, sourceId |-> candidate.sourceId,
    externalId |-> candidate.externalId, rawData |-> candidate.rawData ]

RegionOfCity(cityId) ==
  IF cityId = NULL THEN NULL
  ELSE cities[CHOOSE i \in DOMAIN cities : cities[i].id = cityId].region_id

\* Inserts the event of a new candidate, its EventSource and its fingerprint
\* rows, scores it, and points the candidate row at it.
createEventFromCandidate(db, candidateId, candidate, now) ==
  LET id == db.nextEventId
      event == [ id |-> id, name |-> candidate.rawName, startDate |-> candidate.startDate,
                 endDate |-> candidate.endDate, cityId |-> candidate.cityId,
                 regionId |-> RegionOfCity(candidate.cityId),
                 venueId |-> candidate.venueId, description |-> NullStr,
                 officialWebsite |-> NullStr, status |-> "announced",
                 confidenceScore |-> 0, lastVerifiedAt |-> NULL, isVerified |-> FALSE,
                 isPinned |-> FALSE, culturalSignificance |-> 0 ]
      inserted == [db EXCEPT !.events = (id :> event) @@ @, !.nextEventId = id + 1]
      linked == createEventSource(inserted, EventSourceRow(id, candidate))
      printed == [linked EXCEPT !.fingerprints = @ \cup
                    {[type |-> candidate.fingerprints[i].type,
                      value |-> candidate.fingerprints[i].value,
                      eventId |-> id] : i \in DOMAIN candidate.fingerprints}]
      scored == updateEvent(printed, id,
                  [confidenceScore |-> calculateConfidenceScore(printed, id, now),
                   lastVerifiedAt |-> now])
  IN  [scored EXCEPT !.candidates[candidateId].matchedEventId = id]

\* Variant: the merge reads the best reliability before it links the new
\* source, so a more reliable source overwrites the event's attributes.
mergeIntoEvent_ComparesBeforeLinking(db, existingEventId, candidate, confidence, now) ==
  LET source == getSource(candidate.sourceId)
      existingSources == getEventSources(db, existingEventId)
      currentBestReliability ==
        SetMax({existingSources[i].reliability : i \in DOMAIN existingSources})
      linked == createEventSource(db, EventSourceRow(existingEventId, candidate))
      upgraded ==
        IF source.reliabilityScore > currentBestReliability
        THEN updateEvent(linked, existingEventId,
               [name |-> candidate.rawName, startDate |-> candidate.startDate,
                endDate |-> candidate.endDate, venueId |-> candidate.venueId])
        ELSE linked
      newConfidence == calculateConfidenceScore(upgraded, existingEventId, now)
  IN  updateEvent(upgraded, existingEventId,
        [confidenceScore |-> newConfidence, lastVerifiedAt |-> now])

\* Variant: every merged candidate overwrites the event's attributes,
\* whatever the reliability of its source.
mergeIntoEvent_AlwaysOverwrites(db, existingEventId, candidate, confidence, now) ==
  LET linked == createEventSource(db, EventSourceRow(existingEventId, candidate))
      upgraded ==
        updateEvent(linked, existingEventId,
          [name |-> candidate.rawName, startDate |-> candidate.startDate,
           endDate |-> candidate.endDate, venueId |-> candidate.venueId])
      newConfidence == calculateConfidenceScore(upgraded, existingEventId, now)
  IN  updateEvent(upgraded, existingEventId,
        [confidenceScore |-> newConfidence, lastVerifiedAt |-> now])

\* Variant: the merge rescores the event but records no source for it.
mergeIntoEvent_NoSource(db, existingEventId, candidate, confidence, now) ==
  updateEvent(db, existingEventId,
    [confidenceScore |-> calculateConfidenceScore(db, existingEventId, now),
     lastVerifiedAt |-> now])

mergeIntoEvent(db, existingEventId, candidate, confidence, now) ==
  LET source == getSource(candidate.sourceId)
      linked == createEventSource(db, EventSourceRow(existingEventId, candidate))
      existingSources == getEventSources(linked, existingEventId)
      currentBestReliability ==
        SetMax({existingSources[i].reliability : i \in DOMAIN existingSources})
      upgraded ==
        IF source.reliabilityScore > currentBestReliability
        THEN updateEvent(linked, existingEventId,
               [name |-> candidate.rawName, startDate |-> candidate.startDate,
                endDate |-> candidate.endDate, venueId |-> candidate.venueId])
        ELSE linked
      newConfidence == calculateConfidenceScore(upgraded, existingEventId, now)
  IN  updateEvent(upgraded, existingEventId,
        [confidenceScore |-> newConfidence, lastVerifiedAt |-> now])

flagForReview(db, candidateId, result) ==
  [db EXCEPT !.reviewQueue = Append(@, [candidateId |-> candidateId, result |-> result])]

\* Appends the candidate row (also when the external id is already staged).
storeCandidate(db, normalized) ==
  [db EXCEPT !.candidates = Append(@,
     normalized @@ [processed |-> FALSE, matchedEventId |-> NULL,
                    matchConfidence |-> NULL, outcome |-> ""])]

markCandidateProcessed(db, candidateId, result) ==
  [db EXCEPT !.candidates[candidateId] =
     [@ EXCEPT !.processed = TRUE,
               !.outcome = result.action,
               !.matchConfidence = result.confidence,
               !.matchedEventId =
                 IF result.existingEventId # NULL THEN result.existingEventId ELSE @]]

\* Variant: a review decision is applied as a merge into the matched event.
ProcessRaw_ReviewMerges(db, raw, now) ==
  Bind(normalizeCandidate(raw), LAMBDA normalized :
  Bind(storeCandidate(db, normalized), LAMBDA staged :
  Bind(Len(staged.candidates), LAMBDA candidateId :
  Bind(deduplicateCandidate(staged, normalized), LAMBDA result :
  Bind(CASE result.action = "create" ->
              createEventFromCandidate(staged, candidateId, normalized, now)
         [] result.action \in {"merge", "review"} ->
              mergeIntoEvent(staged, result.existingEventId, normalized,
                             result.confidence, now),
       LAMBDA applied :
         [db |-> markCandidateProcessed(applied, candidateId, result),
          result |-> result])))))

\* Variant: the candidate row is pointed at the event named in the resolver's
\* result, which names none for a create.
ProcessRaw_MarksFromResult(db, raw, now) ==
  Bind(normalizeCandidate(raw), LAMBDA normalized :
  Bind(storeCandidate(db, normalized), LAMBDA staged :
  Bind(Len(staged.candidates), LAMBDA candidateId :
  Bind(deduplicateCandidate(staged, normalized), LAMBDA result :
  Bind(CASE result.action = "create" ->
              createEventFromCandidate(staged, candidateId, normalized, now)
         [] result.action = "merge" ->
              mergeIntoEvent(staged, result.existingEventId, normalized,
                             result.confidence, now)
         [] result.action = "review" -> flagForReview(staged, candidateId, result),
       LAMBDA applied :
         [db |-> [markCandidateProcessed(applied, candidateId, result)
                    EXCEPT !.candidates[candidateId].matchedEventId =
                             result.existingEventId],
          result |-> result])))))

\* One pass of the per-record loop body: normalize, stage, resolve, apply, mark.
ProcessRaw(db, raw, now) ==
  Bind(normalizeCandidate(raw), LAMBDA normalized :
  Bind(storeCandidate(db, normalized), LAMBDA staged :
  Bind(Len(staged.candidates), LAMBDA candidateId :
  Bind(deduplicateCandidate(staged, normalized), LAMBDA result :
  Bind(CASE result.action = "create" ->
              createEventFromCandidate(staged, candidateId, normalized, now)
         [] result.action = "merge" ->
              mergeIntoEvent(staged, result.existingEventId, normalized,
                             result.confidence, now)
         [] result.action = "review" -> flagForReview(staged, candidateId, result),
       LAMBDA applied :
         [db |-> markCandidateProcessed(applied, candidateId, result),
          result |-> result])))))

(***************************************************************************)
(* State                                                                   *)
(***************************************************************************)

VARIABLES
  db,        \* the authoritative store
  feed,      \* the records the upstream sources serve
  run,       \* the ingestion run in progress and its report
  now,       \* the wall clock, a day number
  search,    \* the search engine's collection 'events'
  rebuild,   \* the fullReindex call in progress and its result
  call,      \* the indexEvent or removeFromIndex call the last step made, if any
  workers,   \* concurrent runs, each at a step of its per-record loop, or hook calls
  score,     \* the value the confidence scorer returned last
  norm,      \* a name, and what normalizeName made of it in one and in two passes
  sheets     \* the sheets client: its table, its clock, its cache and the fetchEvents calls

vars == <<db, feed, run, now, search, rebuild, call, workers, score, norm, sheets>>

\* What the ingestion run leaves alone.
others == <<search, rebuild, call, workers, score, norm, sheets>>

MaxBatch == 2
MaxCandidates == 2
TickDays == 45
MaxTicks == 1

\* run.attempts counts the calls of adapter.fetch made for the source at idx.
IdleRun ==
  [ pc |-> "idle", idx |-> 0, attempts |-> 0, rawEvents |-> <<>>,
    sourceReport |-> [sourceId |-> NULL, fetched |-> 0, created |-> 0, merged |-> 0,
                      reviewNeeded |-> 0],
    report |-> [started |-> FALSE, completed |-> FALSE, sources |-> <<>>,
                totalFetched |-> 0, totalCreated |-> 0, totalMerged |-> 0,
                totalReviewNeeded |-> 0, errors |-> <<>>] ]

\* getActiveSources(): every source of the table is active.
activeSources == sourcesTable

\* No collection yet, no rebuild, no concurrent run, nothing scored.
NoCollection == [exists |-> FALSE, docs |-> {}]
IdleRebuild == [pc |-> "idle", calls |-> 0, indexed |-> 0, errors |-> 0]
NoWorkers == <<>>
NoCall == [op |-> "none", eventId |-> NULL, completed |-> FALSE]
NoScore == [eventId |-> NULL, value |-> NULL]

NoName == [input |-> NullStr, passes |-> 0, once |-> NullStr, twice |-> NullStr]

\* The fetchEvents calls that can be in flight at once.
Callers == {1, 2}

IdleCall == [pc |-> "idle", read |-> <<>>, result |-> <<>>, queried |-> FALSE, failed |-> FALSE]

\* A cold process: _cachedEvents = null, _cacheTimestamp = 0, an empty table.
\* The clock counts minutes; lastLoadAt is when a load last succeeded.
ColdSheets ==
  [ table |-> <<>>, clock |-> 0,
    cachedEvents |-> [loaded |-> FALSE, events |-> <<>>], cacheTimestamp |-> 0,
    calls |-> [c \in Callers |-> IdleCall], lastLoadAt |-> NULL, lastCached |-> <<>> ]

Init ==
  /\ db = EmptyDb
  /\ feed = UpstreamRecords
  /\ run = IdleRun
  /\ now = 0
  /\ search = NoCollection
  /\ rebuild = IdleRebuild
  /\ call = NoCall
  /\ workers = NoWorkers
  /\ score = NoScore
  /\ norm = NoName
  /\ sheets = ColdSheets

(***************************************************************************)
(* Pipeline orchestration: runIngestionPipeline, one step per await        *)
(***************************************************************************)

\* What adapter.fetch can return for a source: its records, in any order and
\* number, the same record possibly more than once.
Batches(sourceId) ==
  UNION {[1..n -> {r \in feed : r.sourceId = sourceId}] : n \in 0..MaxBatch}

StartRun ==
  /\ run.pc = "idle"
  /\ run' = [IdleRun EXCEPT !.pc = "source", !.idx = 1, !.report.started = TRUE]
  /\ UNCHANGED <<db, feed, now, others>>

NextSource(r) == [r EXCEPT !.pc = "source", !.idx = @ + 1, !.attempts = 0,
                           !.rawEvents = <<>>,
                           !.sourceReport = IdleRun.sourceReport]

\* adapter.fetch resolves with a batch.
FetchSource ==
  /\ run.pc = "source"
  /\ run.idx <= Len(activeSources)
  /\ \E batch \in Batches(activeSources[run.idx].id) :
       /\ Len(db.candidates) + Len(batch) <= MaxCandidates
       /\ run' = [run EXCEPT !.pc = "records", !.attempts = @ + 1, !.rawEvents = batch,
                             !.sourceReport = [sourceId |-> activeSources[run.idx].id,
                                               fetched |-> Len(batch), created |-> 0,
                                               merged |-> 0, reviewNeeded |-> 0]]
  /\ UNCHANGED <<db, feed, now, others>>

\* Variant: the catch block of a failed fetch also moves the source's cursor.
FetchFails_AdvancesCursor ==
  /\ run.pc = "source"
  /\ run.idx <= Len(activeSources)
  /\ db' = [db EXCEPT !.lastFetchAt[activeSources[run.idx].id] = now]
  /\ run' = NextSource([run EXCEPT !.report.errors =
              Append(@, [sourceId |-> activeSources[run.idx].id,
                         error |-> "network_timeout"])])
  /\ UNCHANGED <<feed, now, others>>

\* adapter.fetch rejects: the source's catch block records the error.
FetchFails ==
  /\ run.pc = "source"
  /\ run.idx <= Len(activeSources)
  /\ \E error \in {"network_timeout"} :
       run' = NextSource([run EXCEPT !.report.errors =
                Append(@, [sourceId |-> activeSources[run.idx].id, error |-> error])])
  /\ UNCHANGED <<db, feed, now, others>>

\* Variant: a merge is applied without being counted.
Count_MergeUncounted(report, action) ==
  CASE action = "create" -> [report EXCEPT !.created = @ + 1]
    [] action = "merge" -> report
    [] action = "review" -> [report EXCEPT !.reviewNeeded = @ + 1]

Count(report, action) ==
  CASE action = "create" -> [report EXCEPT !.created = @ + 1]
    [] action = "merge" -> [report EXCEPT !.merged = @ + 1]
    [] action = "review" -> [report EXCEPT !.reviewNeeded = @ + 1]

ProcessRecord ==
  /\ run.pc = "records"
  /\ run.rawEvents # <<>>
  /\ \E done \in {ProcessRaw(db, Head(run.rawEvents), now)} :
       /\ db' = done.db
       /\ run' = [run EXCEPT !.rawEvents = Tail(@),
                             !.sourceReport = Count(@, done.result.action)]
  /\ UNCHANGED <<feed, now, others>>

\* Normalizing a record throws: the source's catch block ends the source.
RecordFails ==
  /\ run.pc = "records"
  /\ run.rawEvents # <<>>
  /\ \E error \in {"parse_error"} :
       run' = NextSource([run EXCEPT !.report.errors =
                Append(@, [sourceId |-> run.sourceReport.sourceId, error |-> error])])
  /\ UNCHANGED <<db, feed, now, others>>

FinishSource ==
  /\ run.pc = "records"
  /\ run.rawEvents = <<>>
  /\ db' = [db EXCEPT !.lastFetchAt[run.sourceReport.sourceId] = now]
  /\ run' = NextSource([run EXCEPT
       !.report.sources = Append(@, run.sourceReport),
       !.report.totalFetched = @ + run.sourceReport.fetched,
       !.report.totalCreated = @ + run.sourceReport.created,
       !.report.totalMerged = @ + run.sourceReport.merged,
       !.report.totalReviewNeeded = @ + run.sourceReport.reviewNeeded])
  /\ UNCHANGED <<feed, now, others>>

\* The run returns its report to the caller.
FinishRun ==
  /\ run.pc = "source"
  /\ run.idx > Len(activeSources)
  /\ run' = IdleRun
  /\ UNCHANGED <<db, feed, now, others>>

\* Time passes between runs.
Tick ==
  /\ run.pc = "idle"
  /\ now < TickDays * MaxTicks
  /\ now' = now + TickDays
  /\ UNCHANGED <<db, feed, run, others>>

Next ==
  \/ StartRun
  \/ FetchSource
  \/ ProcessRecord
  \/ FinishSource
  \/ FinishRun
  \/ Tick

Spec == Init /\ [][Next]_vars

(***************************************************************************)
(* The ingestion run when fetching, normalizing or the store can fail      *)
(***************************************************************************)

FaultFeed == {RecA1, RecA2, RecB1}

InitFaults ==
  /\ db = EmptyDb
  /\ feed = FaultFeed
  /\ run = IdleRun
  /\ now = 0
  /\ search = NoCollection
  /\ rebuild = IdleRebuild
  /\ call = NoCall
  /\ workers = NoWorkers
  /\ score = NoScore
  /\ norm = NoName
  /\ sheets = ColdSheets

\* storeCandidate rejects with a database error: the source's catch block
\* records it and the loop goes on to the next source.
DatabaseFails ==
  /\ run.pc = "records"
  /\ run.rawEvents # <<>>
  /\ \E error \in {"database_error"} :
       run' = NextSource([run EXCEPT !.report.errors =
                Append(@, [sourceId |-> run.sourceReport.sourceId, error |-> error])])
  /\ UNCHANGED <<db, feed, now, others>>

NextFaults ==
  \/ Next
  \/ FetchFails
  \/ RecordFails
  \/ DatabaseFails

SpecFaults == InitFaults /\ [][NextFaults]_vars

(***************************************************************************)
(* Two concurrent runs: the per-record loop body of runIngestionPipeline,  *)
(* one step per await, with no transaction around the steps                *)
(***************************************************************************)

Workers == {1, 2}

RaceFeed == {RecA1, RecA2, RecB1}

InitRace ==
  /\ db = EmptyDb
  /\ feed = RaceFeed
  /\ run = IdleRun
  /\ now = 0
  /\ search = NoCollection
  /\ rebuild = IdleRebuild
  /\ call = NoCall
  /\ workers \in [Workers -> {[pc |-> "store", raw |-> r, normalized |-> <<>>,
                                candidateId |-> NULL, result |-> <<>>] : r \in RaceFeed}]
  /\ score = NoScore
  /\ norm = NoName
  /\ sheets = ColdSheets

\* normalizeCandidate and await storeCandidate(normalized)
WorkerStore(w) ==
  /\ workers[w].pc = "store"
  /\ \E normalized \in {normalizeCandidate(workers[w].raw)} :
       /\ db' = storeCandidate(db, normalized)
       /\ workers' = [workers EXCEPT ![w].pc = "resolve",
                                     ![w].normalized = normalized,
                                     ![w].candidateId = Len(db.candidates) + 1]
  /\ UNCHANGED <<feed, run, now, search, rebuild, call, score, norm, sheets>>

\* await deduplicateCandidate(normalized)
WorkerResolve(w) ==
  /\ workers[w].pc = "resolve"
  /\ workers' = [workers EXCEPT ![w].pc = "apply",
                                ![w].result = deduplicateCandidate(db, workers[w].normalized)]
  /\ UNCHANGED <<db, feed, run, now, search, rebuild, call, score, norm, sheets>>

\* switch (result.action): await the writer the decision names
WorkerApply(w) ==
  /\ workers[w].pc = "apply"
  /\ \E self \in {workers[w]} :
       db' = CASE self.result.action = "create" ->
                    createEventFromCandidate(db, self.candidateId, self.normalized, now)
               [] self.result.action = "merge" ->
                    mergeIntoEvent(db, self.result.existingEventId, self.normalized,
                                   self.result.confidence, now)
               [] self.result.action = "review" ->
                    flagForReview(db, self.candidateId, self.result)
  /\ workers' = [workers EXCEPT ![w].pc = "mark"]
  /\ UNCHANGED <<feed, run, now, search, rebuild, call, score, norm, sheets>>

\* await markCandidateProcessed(candidateId, result)
WorkerMark(w) ==
  /\ workers[w].pc = "mark"
  /\ db' = markCandidateProcessed(db, workers[w].candidateId, workers[w].result)
  /\ workers' = [workers EXCEPT ![w].pc = "done"]
  /\ UNCHANGED <<feed, run, now, search, rebuild, call, score, norm, sheets>>

NextRace ==
  \E w \in Workers :
    \/ WorkerStore(w)
    \/ WorkerResolve(w)
    \/ WorkerApply(w)
    \/ WorkerMark(w)

SpecRace == InitRace /\ [][NextRace]_vars

(***************************************************************************)
(* Search index synchronization and the editorial commands                 *)
(*                                                                         *)
(* search has the fields exists (the collection 'events' exists) and docs  *)
(* (its documents, at most one per id). Every request to the engine takes  *)
(* an outcome as input: "ok", or "unavailable" when the engine cannot be   *)
(* reached or answers with a server error.                                 *)
(***************************************************************************)

EngineOutcomes == {"ok", "unavailable"}

Indexable == {"announced", "confirmed"}

Statuses == {"announced", "confirmed", "cancelled", "postponed", "archived"}

regions == {1, 2}

\* The select with its inner joins on cities and regions: the rows of the
\* events that have both, in id order.
JoinedEvents(store) ==
  SelectSeq([e \in 1..store.nextEventId - 1 |-> e], LAMBDA e :
    /\ e \in EventIds(store)
    /\ \E i \in DOMAIN cities : cities[i].id = store.events[e].cityId
    /\ store.events[e].regionId \in regions)

toSearchDocument(row, genres, artists, hasTickets) ==
  [ id |-> ToString(row.id), name |-> row.name, start_date |-> row.startDate,
    city_id |-> row.cityId, region_id |-> row.regionId,
    genres |-> [i \in DOMAIN genres |-> genres[i].name],
    artists |-> [i \in DOMAIN artists |-> artists[i].name],
    status |-> row.status,
    confidence_score |-> row.confidenceScore, is_verified |-> row.isVerified,
    is_pinned |-> row.isPinned, cultural_significance |-> row.culturalSignificance,
    has_tickets |-> hasTickets ]

\* The rows of a related table selected for the events eventIds, grouped by
\* event as genresByEvent and artistsByEvent are; an event without rows has
\* the empty list.
ByEvent(related, eventIds, eventId) ==
  SelectSeq(SelectSeq(related, LAMBDA r : r.eventId \in eventIds),
            LAMBDA r : r.eventId = eventId)

\* The events among eventIds that the grouped count of event_ticket_urls
\* gives a count above 0.
TicketedEvents(store, eventIds) ==
  {e \in eventIds :
     Len(SelectSeq(store.eventTicketUrls, LAMBDA t : t.eventId = e)) > 0}

\* The documents fullReindex makes of the selected rows: each row with its
\* genres, its artists and whether it has tickets.
TransformAll(store, rows) ==
  LET eventIds == {rows[i] : i \in DOMAIN rows}
      hasTickets == TicketedEvents(store, eventIds)
  IN  [i \in DOMAIN rows |->
         toSearchDocument(store.events[rows[i]],
                          ByEvent(store.eventGenres, eventIds, rows[i]),
                          ByEvent(store.eventArtists, eventIds, rows[i]),
                          rows[i] \in hasTickets)]

\* Variant: the single-event transform never sees a ticket URL.
TransformOne_NoTickets(store, eventId) ==
  toSearchDocument(store.events[eventId],
                   SelectSeq(store.eventGenres, LAMBDA r : r.eventId = eventId),
                   SelectSeq(store.eventArtists, LAMBDA r : r.eventId = eventId),
                   FALSE)

\* The document indexEvent makes of one event: its row with the genres, the
\* artists and the ticket count selected for it.
TransformOne(store, eventId) ==
  toSearchDocument(store.events[eventId],
                   SelectSeq(store.eventGenres, LAMBDA r : r.eventId = eventId),
                   SelectSeq(store.eventArtists, LAMBDA r : r.eventId = eventId),
                   Len(SelectSeq(store.eventTicketUrls, LAMBDA t : t.eventId = eventId)) > 0)

HasDocument(collection, eventId) ==
  collection.exists /\ \E d \in collection.docs : d.id = ToString(eventId)

\* client.collections('events').documents(id).delete(): rejects when the
\* engine is unavailable, the collection is missing or the document is.
deleteDocument(collection, eventId, outcome) ==
  IF outcome = "ok" /\ HasDocument(collection, eventId)
  THEN [search |-> [collection EXCEPT !.docs = {d \in @ : d.id # ToString(eventId)}],
        resolved |-> TRUE]
  ELSE [search |-> collection, resolved |-> FALSE]

\* documents().upsert(document) and each document of an import with action upsert
upsertDocuments(collection, documents) ==
  [collection EXCEPT !.docs = {d \in @ : \A n \in documents : n.id # d.id} \cup documents]

BATCH_SIZE == 100

\* The number of the batch the loop is at, from what it has counted so far.
BatchNumber(counts) == (counts[1] + counts[2]) \div BATCH_SIZE + 1

\* Variant: the loop ends at the first import request that rejects.
RECURSIVE importBatches_StopOnFailure(_, _, _, _, _)
importBatches_StopOnFailure(collection, documents, refused, rejected, counts) ==
  IF documents = <<>> THEN [search |-> collection, indexed |-> counts[1], errors |-> counts[2]]
  ELSE LET batch == SubSeq(documents, 1, Min(BATCH_SIZE, Len(documents)))
           rest == SubSeq(documents, Len(batch) + 1, Len(documents))
           failed == {i \in DOMAIN batch : batch[i].id \in refused}
       IN  IF BatchNumber(counts) \notin rejected /\ collection.exists
           THEN importBatches_StopOnFailure(
                  upsertDocuments(collection, {batch[i] : i \in DOMAIN batch \ failed}),
                  rest, refused, rejected,
                  <<counts[1] + Len(batch) - Cardinality(failed),
                    counts[2] + Cardinality(failed)>>)
           ELSE [search |-> collection, indexed |-> counts[1],
                 errors |-> counts[2] + Len(batch)]

\* The batch loop: each batch is imported, the documents the engine refuses
\* are counted as errors, a rejected import counts its whole batch. rejected
\* holds the numbers of the batches whose import request rejects.
RECURSIVE importBatches(_, _, _, _, _)
importBatches(collection, documents, refused, rejected, counts) ==
  IF documents = <<>> THEN [search |-> collection, indexed |-> counts[1], errors |-> counts[2]]
  ELSE LET batch == SubSeq(documents, 1, Min(BATCH_SIZE, Len(documents)))
           rest == SubSeq(documents, Len(batch) + 1, Len(documents))
           failed == {i \in DOMAIN batch : batch[i].id \in refused}
       IN  IF BatchNumber(counts) \notin rejected /\ collection.exists
           THEN importBatches(
                  upsertDocuments(collection, {batch[i] : i \in DOMAIN batch \ failed}),
                  rest, refused, rejected,
                  <<counts[1] + Len(batch) - Cardinality(failed),
                    counts[2] + Cardinality(failed)>>)
           ELSE importBatches(collection, rest, refused, rejected,
                              <<counts[1], counts[2] + Len(batch)>>)

\* Variant: the collection is kept and its documents are imported over.
fullReindex_NoDrop(store, collection, drop, create, refused, rejected) ==
  LET rows == SelectSeq(JoinedEvents(store), LAMBDA e : store.events[e].status \in Indexable)
      documents == TransformAll(store, rows)
  IN  IF create = "ok"
      THEN importBatches([exists |-> TRUE, docs |-> collection.docs], documents, refused,
                         rejected, <<0, 0>>) @@ [returned |-> TRUE]
      ELSE [search |-> collection, indexed |-> 0, errors |-> 0, returned |-> FALSE]

\* fullReindex(): the collection is dropped (any error swallowed) and
\* created (an error rejects the call), the indexable events are selected,
\* transformed and imported. returned is FALSE when the call rejects.
fullReindex(store, collection, drop, create, refused, rejected) ==
  LET dropped == IF drop = "ok" /\ collection.exists THEN NoCollection ELSE collection
      rows == SelectSeq(JoinedEvents(store), LAMBDA e : store.events[e].status \in Indexable)
      documents == TransformAll(store, rows)
  IN  IF create = "ok" /\ ~dropped.exists
      THEN importBatches([exists |-> TRUE, docs |-> {}], documents, refused, rejected, <<0, 0>>)
             @@ [returned |-> TRUE]
      ELSE [search |-> dropped, indexed |-> 0, errors |-> 0, returned |-> FALSE]

\* indexEvent(eventId): completed is FALSE when the call rejects.
indexEvent(store, collection, eventId, outcome) ==
  IF eventId \notin {JoinedEvents(store)[i] : i \in DOMAIN JoinedEvents(store)}
  THEN [search |-> deleteDocument(collection, eventId, outcome).search, completed |-> TRUE]
  ELSE IF store.events[eventId].status \notin Indexable
  THEN [search |-> deleteDocument(collection, eventId, outcome).search, completed |-> TRUE]
  ELSE IF outcome = "ok" /\ collection.exists
  THEN [search |-> upsertDocuments(collection, {TransformOne(store, eventId)}),
        completed |-> TRUE]
  ELSE [search |-> collection, completed |-> FALSE]

\* Variant: the rejection of the delete request is passed on to the caller.
removeFromIndex_NoCatch(collection, eventId, outcome) ==
  [search |-> deleteDocument(collection, eventId, outcome).search,
   completed |-> deleteDocument(collection, eventId, outcome).resolved]

\* removeFromIndex(eventId): the delete request inside try / catch {}, so
\* the call completes whatever the engine answers.
removeFromIndex(collection, eventId, outcome) ==
  [search |-> deleteDocument(collection, eventId, outcome).search, completed |-> TRUE]

\* Variant: the log keeps only the latest action of each event.
logAction_LatestOnly(store, actionType, eventId, payload) ==
  [store EXCEPT !.editorialActions =
     Append(SelectSeq(@, LAMBDA row : row.eventId # eventId),
            [actionType |-> actionType, eventId |-> eventId, payload |-> payload])]

\* The row every editorial command adds to editorial_actions.
logAction(store, actionType, eventId, payload) ==
  [store EXCEPT !.editorialActions =
     Append(@, [actionType |-> actionType, eventId |-> eventId, payload |-> payload])]

\* Update Event Status: sets events.status.
updateStatus(store, eventId, status) ==
  logAction(updateEvent(store, eventId, [status |-> status]), "update_status", eventId, status)

\* Archive Event: sets events.status = 'archived' and keeps the row.
archiveEvent(store, eventId) ==
  logAction(updateEvent(store, eventId, [status |-> "archived"]), "archive", eventId, "")

MaxSyncCandidates == 1
MaxEditorial == 1
MaxRebuilds == 1

\* The statuses an editor sets in the model: one indexable, one not.
StatusInputs == {"confirmed", "cancelled"}

\* Records whose city is known: events.city_id and region_id are never null.
SyncFeed == {RecA1, RecA2, RecB1}

\* The ids a caller can pass: those of the events and one that was never used.
SyncEventIds == 1..MaxSyncCandidates + 1

InitSync ==
  /\ db = EmptyDb
  /\ feed = SyncFeed
  /\ run = IdleRun
  /\ now = 0
  /\ search = NoCollection
  /\ rebuild = IdleRebuild
  /\ call = NoCall
  /\ workers = NoWorkers
  /\ score = NoScore
  /\ norm = NoName
  /\ sheets = ColdSheets

\* One record goes through the per-record loop body of the pipeline.
IngestRecord ==
  /\ Len(db.candidates) < MaxSyncCandidates
  /\ \E raw \in feed : db' = ProcessRaw(db, raw, now).db
  /\ call' = NoCall
  /\ UNCHANGED <<feed, run, now, search, rebuild, workers, score, norm, sheets>>

\* ensureSchema(): creates the collection when retrieving it fails.
EnsureSchema ==
  /\ \E retrieve \in EngineOutcomes, create \in EngineOutcomes :
       search' = IF retrieve = "ok" /\ search.exists THEN search
                 ELSE IF create = "ok" /\ ~search.exists
                      THEN [exists |-> TRUE, docs |-> {}]
                 ELSE search
  /\ call' = NoCall
  /\ UNCHANGED <<db, feed, run, now, rebuild, workers, score, norm, sheets>>

\* The import requests a rebuild of the store makes, one per batch.
BatchCount(store) ==
  (Cardinality({e \in EventIds(store) : store.events[e].status \in Indexable})
     + BATCH_SIZE - 1) \div BATCH_SIZE

\* The events whose document the engine may refuse in an import: the first
\* three and one that a store of more than a batch has in its second batch.
Refusable == {1, 2, 3, BATCH_SIZE + 3}

\* fullReindex() is called; the engine answers the drop, the create and each
\* import request, and refuses some of the documents it is sent.
FullReindex ==
  /\ rebuild.calls < MaxRebuilds
  /\ \E drop \in EngineOutcomes, create \in EngineOutcomes,
        rejected \in SUBSET (1..BatchCount(db)),
        refused \in SUBSET {ToString(e) : e \in {x \in EventIds(db) \cap Refusable :
                                                  db.events[x].status \in Indexable}} :
       /\ create = "unavailable" => (rejected = {} /\ refused = {})
       /\ \E done \in {fullReindex(db, search, drop, create, refused, rejected)} :
         /\ search' = done.search
         /\ rebuild' = [pc |-> IF done.returned THEN "done" ELSE "failed",
                        calls |-> rebuild.calls + 1,
                        indexed |-> done.indexed, errors |-> done.errors]
  /\ call' = NoCall
  /\ UNCHANGED <<db, feed, run, now, workers, score, norm, sheets>>

IndexEvent(eventId, outcome) ==
  /\ \E done \in {indexEvent(db, search, eventId, outcome)} :
       /\ search' = done.search
       /\ call' = [op |-> "indexEvent", eventId |-> eventId, completed |-> done.completed]
  /\ UNCHANGED <<db, feed, run, now, rebuild, workers, score, norm, sheets>>

RemoveFromIndex(eventId, outcome) ==
  /\ \E done \in {removeFromIndex(search, eventId, outcome)} :
       /\ search' = done.search
       /\ call' = [op |-> "removeFromIndex", eventId |-> eventId,
                   completed |-> done.completed]
  /\ UNCHANGED <<db, feed, run, now, rebuild, workers, score, norm, sheets>>

UpdateStatus(eventId, status) ==
  /\ eventId \in EventIds(db)
  /\ Len(db.editorialActions) < MaxEditorial
  /\ db' = updateStatus(db, eventId, status)
  /\ call' = NoCall
  /\ UNCHANGED <<feed, run, now, search, rebuild, workers, score, norm, sheets>>

\* Archive Event: the status is set and the event removed from the index.
Archive(eventId, outcome) ==
  /\ eventId \in EventIds(db)
  /\ Len(db.editorialActions) < MaxEditorial
  /\ db' = archiveEvent(db, eventId)
  /\ search' = removeFromIndex(search, eventId, outcome).search
  /\ call' = NoCall
  /\ UNCHANGED <<feed, run, now, rebuild, workers, score, norm, sheets>>

NextSync ==
  \/ IngestRecord
  \/ EnsureSchema
  \/ FullReindex
  \/ \E eventId \in SyncEventIds, outcome \in EngineOutcomes : IndexEvent(eventId, outcome)
  \/ \E eventId \in SyncEventIds, outcome \in EngineOutcomes :
       RemoveFromIndex(eventId, outcome)
  \/ \E eventId \in SyncEventIds, status \in StatusInputs : UpdateStatus(eventId, status)
  \/ \E eventId \in SyncEventIds, outcome \in EngineOutcomes : Archive(eventId, outcome)

SpecSync == InitSync /\ [][NextSync]_vars

(***************************************************************************)
(* Full rebuild of a store that takes more than one batch                  *)
(***************************************************************************)

MaxBulk == 205

\* Store sizes: a few events, just under a batch, exactly a batch, two
\* batches, three batches.
BulkSizes ==
  {1, 3, BATCH_SIZE, BATCH_SIZE + 1, BATCH_SIZE + 2, BATCH_SIZE + BATCH_SIZE, MaxBulk}

\* Every fiftieth event is cancelled, the others are announced.
CancelledEvery == 50

BulkEvent(id) ==
  [ id |-> id, name |-> StrGnaouaFest, startDate |-> Day26, endDate |-> NULL,
    cityId |-> 1, regionId |-> 1, venueId |-> NULL, description |-> NullStr,
    officialWebsite |-> NullStr,
    status |-> IF id % CancelledEvery = 0 THEN "cancelled" ELSE "announced",
    confidenceScore |-> 0, lastVerifiedAt |-> NULL, isVerified |-> FALSE,
    isPinned |-> FALSE, culturalSignificance |-> 0 ]

BulkStores ==
  { [EmptyDb EXCEPT !.events = [id \in 1..n |-> BulkEvent(id)], !.nextEventId = n + 1] :
    n \in BulkSizes }

InitBulk ==
  /\ db \in BulkStores
  /\ feed = {}
  /\ run = IdleRun
  /\ now = 0
  /\ search = NoCollection
  /\ rebuild = IdleRebuild
  /\ call = NoCall
  /\ workers = NoWorkers
  /\ score = NoScore
  /\ norm = NoName
  /\ sheets = ColdSheets

NextBulk == FullReindex

SpecBulk == InitBulk /\ [][NextBulk]_vars

(***************************************************************************)
(* The confidence scorer on its own: calculateConfidenceScore applied to   *)
(* an event of any completeness, any linked sources and any verification   *)
(* time the clocks of the workers can have written                         *)
(***************************************************************************)

MaxScoreSources == 2
ScoreNow == 100
ClockSkewDays == 1

StrText == <<"t", "e", "x", "t">>

\* The verification times an event can carry when it is scored at ScoreNow:
\* none, older than the decay period, recent, this instant, and a time
\* written by a worker whose clock is ahead.
LastVerifiedChoices == {NULL, 0, ScoreNow - TickDays, ScoreNow, ScoreNow + ClockSkewDays}

ScoredEvents ==
  { [ id |-> 1, name |-> StrGnaouaFest, startDate |-> Day26, endDate |-> endDate,
      cityId |-> 1, regionId |-> 1, venueId |-> venueId, description |-> text,
      officialWebsite |-> text, status |-> "announced", confidenceScore |-> 0,
      lastVerifiedAt |-> verified, isVerified |-> FALSE, isPinned |-> FALSE,
      culturalSignificance |-> 0 ] :
    endDate \in {NULL, Day29}, venueId \in {NULL, 1}, text \in {NullStr, StrText},
    verified \in LastVerifiedChoices }

\* Source 3 reports the next day, the others the event's date.
ScoredSourceRow(sourceId) ==
  [ eventId |-> 1, sourceId |-> sourceId, externalId |-> "X",
    rawData |-> [start_date |-> IF sourceId = 3 THEN Day27 ELSE Day26, venue |-> NullStr] ]

ScoredStores ==
  { [EmptyDb EXCEPT !.events = (1 :> event), !.nextEventId = 2,
                    !.eventSources = [i \in DOMAIN ids |-> ScoredSourceRow(ids[i])]] :
    event \in ScoredEvents,
    ids \in UNION {[1..n -> SourceIds] : n \in 0..MaxScoreSources} }

InitScore ==
  /\ db \in ScoredStores
  /\ feed = {}
  /\ run = IdleRun
  /\ now = ScoreNow
  /\ search = NoCollection
  /\ rebuild = IdleRebuild
  /\ call = NoCall
  /\ workers = NoWorkers
  /\ score = NoScore
  /\ norm = NoName
  /\ sheets = ColdSheets

\* calculateConfidenceScore(eventId) is called and returns.
ScoreEvent ==
  /\ score = NoScore
  /\ \E eventId \in EventIds(db) :
       score' = [eventId |-> eventId, value |-> calculateConfidenceScore(db, eventId, now)]
  /\ UNCHANGED <<db, feed, run, now, search, rebuild, call, workers, norm, sheets>>

NextScore == ScoreEvent

SpecScore == InitScore /\ [][NextScore]_vars

(***************************************************************************)
(* The editorial commands, each with its audit row and its projection      *)
(* update                                                                  *)
(***************************************************************************)

MaxCommands == 2

\* Significance scores an editor sets in the model, of the range 0-10.
SignificanceInputs == {0, 10}

\* Verify Event: sets is_verified and last_verified_at.
verifyEvent(store, eventId, at) ==
  logAction(updateEvent(store, eventId, [isVerified |-> TRUE, lastVerifiedAt |-> at]),
            "verify", eventId, "")

\* Pin Event: sets is_pinned.
pinEvent(store, eventId) ==
  logAction(updateEvent(store, eventId, [isPinned |-> TRUE]), "pin", eventId, "")

\* Set Cultural Significance: sets cultural_significance.
setSignificance(store, eventId, significance) ==
  logAction(updateEvent(store, eventId, [culturalSignificance |-> significance]),
            "set_significance", eventId, ToString(significance))

\* mergeEvents(keepId, mergeId): snapshots the merge target, moves its
\* event_sources to the kept event, deletes it and logs both ids.
mergeEvents(store, keepId, mergeId) ==
  LET snapped == [store EXCEPT !.eventSnapshots =
                    Append(@, [eventId |-> mergeId, data |-> store.events[mergeId],
                               reason |-> "pre_merge"])]
      moved == [snapped EXCEPT !.eventSources =
                  [i \in DOMAIN @ |-> IF @[i].eventId = mergeId
                                      THEN [@[i] EXCEPT !.eventId = keepId] ELSE @[i]]]
      deleted == [moved EXCEPT !.events =
                    [e \in EventIds(store) \ {mergeId} |-> store.events[e]]]
  IN  logAction(deleted, "merge", keepId, ToString(mergeId))

\* editorial_actions.event_id REFERENCES events(id): the rows that keep the
\* event from being deleted.
ReferencedByLog(store, eventId) ==
  \E i \in DOMAIN store.editorialActions : store.editorialActions[i].eventId = eventId

\* The store after the pipeline has ingested three records: event 1 with two
\* sources, event 2 with one.
EditorialStore ==
  Bind(ProcessRaw(EmptyDb, RecA1, 0).db, LAMBDA first :
  Bind(ProcessRaw(first, RecB1, 0).db, LAMBDA second :
    ProcessRaw(second, RecA2, 0).db))

\* Both events are in the collection, as a full rebuild leaves them.
InitEditorial ==
  /\ \E store \in {EditorialStore} :
       /\ db = store
       /\ search = fullReindex(store, NoCollection, "ok", "ok", {}, {}).search
  /\ feed = {}
  /\ run = IdleRun
  /\ now = 0
  /\ rebuild = IdleRebuild
  /\ call = NoCall
  /\ workers = NoWorkers
  /\ score = NoScore
  /\ norm = NoName
  /\ sheets = ColdSheets

\* The projection update of a command on one event: indexEvent(eventId).
Project(command, store, eventId, outcome) ==
  /\ \E done \in {indexEvent(store, search, eventId, outcome)} :
       /\ search' = done.search
       /\ call' = [op |-> command, eventId |-> eventId, completed |-> done.completed]
  /\ UNCHANGED <<feed, run, now, rebuild, workers, score, norm, sheets>>

CommandVerify(eventId, outcome) ==
  /\ eventId \in EventIds(db)
  /\ Len(db.editorialActions) < MaxCommands
  /\ db' = verifyEvent(db, eventId, now)
  /\ Project("verify", db', eventId, outcome)

CommandPin(eventId, outcome) ==
  /\ eventId \in EventIds(db)
  /\ Len(db.editorialActions) < MaxCommands
  /\ db' = pinEvent(db, eventId)
  /\ Project("pin", db', eventId, outcome)

CommandSignificance(eventId, significance, outcome) ==
  /\ eventId \in EventIds(db)
  /\ Len(db.editorialActions) < MaxCommands
  /\ db' = setSignificance(db, eventId, significance)
  /\ Project("set_significance", db', eventId, outcome)

CommandStatus(eventId, status, outcome) ==
  /\ eventId \in EventIds(db)
  /\ Len(db.editorialActions) < MaxCommands
  /\ db' = updateStatus(db, eventId, status)
  /\ Project("update_status", db', eventId, outcome)

\* Variant: the merge deletes the event whatever references it.
CommandMerge_IgnoresLog(keepId, mergeId, upsert, delete) ==
  /\ keepId \in EventIds(db)
  /\ mergeId \in EventIds(db)
  /\ keepId # mergeId
  /\ Len(db.editorialActions) < MaxCommands
  /\ db' = mergeEvents(db, keepId, mergeId)
  /\ \E done \in {indexEvent(db', search, keepId, upsert)} :
       /\ search' = IF done.completed
                    THEN removeFromIndex(done.search, mergeId, delete).search
                    ELSE done.search
       /\ call' = [op |-> "merge", eventId |-> keepId, completed |-> done.completed]
  /\ UNCHANGED <<feed, run, now, rebuild, workers, score, norm, sheets>>

\* merge(keep, lose): the store changes, then the upsert of keep and, when
\* that returned, the delete of lose.
CommandMerge(keepId, mergeId, upsert, delete) ==
  /\ keepId \in EventIds(db)
  /\ mergeId \in EventIds(db)
  /\ keepId # mergeId
  /\ ~ReferencedByLog(db, mergeId)
  /\ Len(db.editorialActions) < MaxCommands
  /\ db' = mergeEvents(db, keepId, mergeId)
  /\ \E done \in {indexEvent(db', search, keepId, upsert)} :
       /\ search' = IF done.completed
                    THEN removeFromIndex(done.search, mergeId, delete).search
                    ELSE done.search
       /\ call' = [op |-> "merge", eventId |-> keepId, completed |-> done.completed]
  /\ UNCHANGED <<feed, run, now, rebuild, workers, score, norm, sheets>>

\* merge(keep, lose) when an audit row references lose: the delete of the
\* event is refused by the foreign key and the command fails.
CommandMergeRefused(keepId, mergeId) ==
  /\ keepId \in EventIds(db)
  /\ mergeId \in EventIds(db)
  /\ keepId # mergeId
  /\ ReferencedByLog(db, mergeId)
  /\ call' = [op |-> "merge", eventId |-> keepId, completed |-> FALSE]
  /\ UNCHANGED <<db, feed, run, now, search, rebuild, workers, score, norm, sheets>>

CommandArchive(eventId, outcome) ==
  /\ eventId \in EventIds(db)
  /\ Len(db.editorialActions) < MaxCommands
  /\ db' = archiveEvent(db, eventId)
  /\ \E done \in {removeFromIndex(search, eventId, outcome)} :
       /\ search' = done.search
       /\ call' = [op |-> "archive", eventId |-> eventId, completed |-> done.completed]
  /\ UNCHANGED <<feed, run, now, rebuild, workers, score, norm, sheets>>

\* The ids an editor can name: those the store has given out.
EditorialIds == 1..db.nextEventId - 1

NextEditorial ==
  \/ \E e \in EditorialIds, outcome \in EngineOutcomes : CommandVerify(e, outcome)
  \/ \E e \in EditorialIds, outcome \in EngineOutcomes : CommandPin(e, outcome)
  \/ \E e \in EditorialIds, significance \in SignificanceInputs, outcome \in EngineOutcomes :
       CommandSignificance(e, significance, outcome)
  \/ \E e \in EditorialIds, status \in Statuses, outcome \in EngineOutcomes :
       CommandStatus(e, status, outcome)
  \/ \E keepId \in EditorialIds, mergeId \in EditorialIds,
        upsert \in EngineOutcomes, delete \in EngineOutcomes :
       CommandMerge(keepId, mergeId, upsert, delete)
  \/ \E keepId \in EditorialIds, mergeId \in EditorialIds :
       CommandMergeRefused(keepId, mergeId)
  \/ \E e \in EditorialIds, outcome \in EngineOutcomes : CommandArchive(e, outcome)

SpecEditorial == InitEditorial /\ [][NextEditorial]_vars

(***************************************************************************)
(* A full rebuild step by step, with status changes and their per-event    *)
(* indexEvent calls running in between. The engine answers every request.  *)
(* workers holds the indexEvent calls that are due or have rejected.       *)
(***************************************************************************)

MaxChanges == 2

\* The select of fullReindex and its transformation into documents.
SelectDocuments(store) ==
  LET rows == SelectSeq(JoinedEvents(store), LAMBDA e : store.events[e].status \in Indexable)
  IN  TransformAll(store, rows)

InitRebuildRace ==
  /\ \E store \in {EditorialStore} :
       /\ db = store
       /\ search = fullReindex(store, NoCollection, "ok", "ok", {}, {}).search
  /\ feed = {}
  /\ run = IdleRun
  /\ now = 0
  /\ rebuild = IdleRebuild @@ [documents |-> <<>>]
  /\ call = NoCall
  /\ workers = {}
  /\ score = NoScore
  /\ norm = NoName
  /\ sheets = ColdSheets

\* client.collections('events').delete()
RebuildDrop ==
  /\ rebuild.pc = "idle"
  /\ rebuild.calls < MaxRebuilds
  /\ search' = NoCollection
  /\ rebuild' = [rebuild EXCEPT !.pc = "dropped", !.calls = @ + 1]
  /\ UNCHANGED <<db, feed, run, now, call, workers, score, norm, sheets>>

\* client.collections().create(EVENTS_SCHEMA)
RebuildCreate ==
  /\ rebuild.pc = "dropped"
  /\ search' = [exists |-> TRUE, docs |-> {}]
  /\ rebuild' = [rebuild EXCEPT !.pc = "created"]
  /\ UNCHANGED <<db, feed, run, now, call, workers, score, norm, sheets>>

\* The select of the indexable events: the snapshot the import will write.
RebuildSelect ==
  /\ rebuild.pc = "created"
  /\ rebuild' = [rebuild EXCEPT !.pc = "selected", !.documents = SelectDocuments(db)]
  /\ UNCHANGED <<db, feed, run, now, search, call, workers, score, norm, sheets>>

\* The batch loop imports the snapshot and fullReindex returns.
RebuildImport ==
  /\ rebuild.pc = "selected"
  /\ \E done \in {importBatches(search, rebuild.documents, {}, {}, <<0, 0>>)} :
       /\ search' = done.search
       /\ rebuild' = [rebuild EXCEPT !.pc = "done", !.indexed = done.indexed,
                                     !.errors = done.errors]
  /\ UNCHANGED <<db, feed, run, now, call, workers, score, norm, sheets>>

\* A status change commits; its indexEvent call is due.
ChangeStatus(eventId, status) ==
  /\ eventId \in EventIds(db)
  /\ Len(db.editorialActions) < MaxChanges
  /\ \A w \in workers : w.eventId # eventId
  /\ db' = updateStatus(db, eventId, status)
  /\ workers' = workers \cup {[eventId |-> eventId, pc |-> "due"]}
  /\ UNCHANGED <<feed, run, now, search, rebuild, call, score, norm, sheets>>

\* The indexEvent call of a change runs; a call that rejects stays recorded.
HookIndexEvent(eventId, outcome) ==
  /\ [eventId |-> eventId, pc |-> "due"] \in workers
  /\ \E done \in {indexEvent(db, search, eventId, outcome)} :
       /\ search' = done.search
       /\ call' = [op |-> "indexEvent", eventId |-> eventId, completed |-> done.completed]
       /\ workers' = (workers \ {[eventId |-> eventId, pc |-> "due"]})
                       \cup (IF done.completed THEN {}
                             ELSE {[eventId |-> eventId, pc |-> "rejected"]})
  /\ UNCHANGED <<db, feed, run, now, rebuild, score, norm, sheets>>

NextRebuildRace ==
  \/ RebuildDrop
  \/ RebuildCreate
  \/ RebuildSelect
  \/ RebuildImport
  \/ \E eventId \in EditorialIds, status \in StatusInputs : ChangeStatus(eventId, status)
  \/ \E eventId \in EditorialIds : HookIndexEvent(eventId, "ok")

SpecRebuildRace == InitRebuildRace /\ [][NextRebuildRace]_vars

\* The per-event calls on their own, the engine answering or not. Every call
\* that is due runs; nothing in the code calls indexEvent a second time.
NextHooks ==
  \/ \E eventId \in EditorialIds, status \in StatusInputs : ChangeStatus(eventId, status)
  \/ \E eventId \in EditorialIds, outcome \in EngineOutcomes :
       HookIndexEvent(eventId, outcome)

SpecHooks == InitRebuildRace /\ [][NextHooks]_vars /\ WF_vars(NextHooks)

(***************************************************************************)
(* Two merge commands at once, each taking the row locks of its two events *)
(* before it changes the store. workers[w] is the command of worker w and  *)
(* where it stands: start, first (one lock held), second (both), done.     *)
(***************************************************************************)

\* Variant: the lock of the kept event is taken first.
FirstLock_KeepFirst(keepId, mergeId) == keepId

\* The row locked first: the one with the lower id.
FirstLock(keepId, mergeId) == Min(keepId, mergeId)

SecondLock(keepId, mergeId) == keepId + mergeId - FirstLock(keepId, mergeId)

\* The row locks a command holds.
HeldLocks(command) ==
  CASE command.pc = "first" -> {FirstLock(command.keepId, command.mergeId)}
    [] command.pc = "second" -> {command.keepId, command.mergeId}
    [] OTHER -> {}

LockFree(eventId, w) == \A o \in Workers \ {w} : eventId \notin HeldLocks(workers[o])

\* The store after the pipeline has ingested three records into three events.
MergeStore ==
  Bind(ProcessRaw(EmptyDb, RecA1, 0).db, LAMBDA first :
  Bind(ProcessRaw(first, RecA2, 0).db, LAMBDA second :
    ProcessRaw(second, RecC1, 0).db))

InitMergeLocks ==
  /\ \E store \in {MergeStore} :
       /\ db = store
       /\ workers \in [Workers -> {command \in [pc : {"start"}, keepId : EventIds(store),
                                                mergeId : EventIds(store),
                                                merged : {FALSE}] :
                                     command.keepId # command.mergeId}]
  /\ feed = {}
  /\ run = IdleRun
  /\ now = 0
  /\ search = NoCollection
  /\ rebuild = IdleRebuild
  /\ call = NoCall
  /\ score = NoScore
  /\ norm = NoName
  /\ sheets = ColdSheets

LockFirst(w) ==
  /\ workers[w].pc = "start"
  /\ LockFree(FirstLock(workers[w].keepId, workers[w].mergeId), w)
  /\ workers' = [workers EXCEPT ![w].pc = "first"]
  /\ UNCHANGED <<db, feed, run, now, search, rebuild, call, score, norm, sheets>>

LockSecond(w) ==
  /\ workers[w].pc = "first"
  /\ LockFree(SecondLock(workers[w].keepId, workers[w].mergeId), w)
  /\ workers' = [workers EXCEPT ![w].pc = "second"]
  /\ UNCHANGED <<db, feed, run, now, search, rebuild, call, score, norm, sheets>>

\* The merge commits and releases its locks; it fails and rolls back when one
\* of its events is gone or an audit row references the event to delete.
MergeCommit(w) ==
  /\ workers[w].pc = "second"
  /\ \E possible \in {/\ workers[w].keepId \in EventIds(db)
                      /\ workers[w].mergeId \in EventIds(db)
                      /\ ~ReferencedByLog(db, workers[w].mergeId)} :
       /\ db' = IF possible THEN mergeEvents(db, workers[w].keepId, workers[w].mergeId)
                ELSE db
       /\ workers' = [workers EXCEPT ![w].pc = "done", ![w].merged = possible]
  /\ UNCHANGED <<feed, run, now, search, rebuild, call, score, norm, sheets>>

MergeWorker(w) ==
  \/ LockFirst(w)
  \/ LockSecond(w)
  \/ MergeCommit(w)

NextMergeLocks == \E w \in Workers : MergeWorker(w)

SpecMergeLocks ==
  InitMergeLocks /\ [][NextMergeLocks]_vars /\ \A w \in Workers : WF_vars(MergeWorker(w))

(***************************************************************************)
(* Re-ingestion: records go through the per-record loop body one after the *)
(* other, any record any number of times.                                  *)
(***************************************************************************)

MaxIngested == 3

InitIngest ==
  /\ db = EmptyDb
  /\ feed = UpstreamRecords
  /\ run = IdleRun
  /\ now = 0
  /\ search = NoCollection
  /\ rebuild = IdleRebuild
  /\ call = NoCall
  /\ workers = NoWorkers
  /\ score = NoScore
  /\ norm = NoName
  /\ sheets = ColdSheets

\* One record goes through normalize, stage, resolve, apply and mark.
Ingest ==
  /\ Len(db.candidates) < MaxIngested
  /\ \E raw \in feed : db' = ProcessRaw(db, raw, now).db
  /\ UNCHANGED <<feed, run, now, others, norm, sheets>>

NextIngest == Ingest

SpecIngest == InitIngest /\ [][NextIngest]_vars

(***************************************************************************)
(* The name normalizer on its own: normalizeName applied to a name and     *)
(* then to its own result.                                                 *)
(***************************************************************************)

MaxNameLen == 5

\* Characters of each kind the normalizer treats differently: letters of the
\* noise token 'fest' in both cases, a digit, a blank and a punctuation mark.
NameChars == {"F", "f", "e", "s", "t", "1", " ", "-"}

RECURSIVE NamesOfLen(_)
NamesOfLen(n) ==
  IF n = 0 THEN {<<>>}
  ELSE {<<c>> \o s : c \in NameChars, s \in NamesOfLen(n - 1)}

InitNormalize ==
  /\ db = EmptyDb
  /\ feed = {}
  /\ run = IdleRun
  /\ now = 0
  /\ search = NoCollection
  /\ rebuild = IdleRebuild
  /\ call = NoCall
  /\ workers = NoWorkers
  /\ score = NoScore
  /\ \E n \in 1..MaxNameLen : \E name \in NamesOfLen(n) :
       norm = [NoName EXCEPT !.input = name]
  /\ sheets = ColdSheets

\* normalizeName(name) is called and returns.
NormalizeOnce ==
  /\ norm.passes = 0
  /\ norm' = [norm EXCEPT !.passes = 1, !.once = normalizeName(norm.input)]
  /\ UNCHANGED <<db, feed, run, now, search, rebuild, call, workers, score, sheets>>

\* normalizeName is called on the result of the first call.
NormalizeTwice ==
  /\ norm.passes = 1
  /\ norm' = [norm EXCEPT !.passes = 2, !.twice = normalizeName(norm.once)]
  /\ UNCHANGED <<db, feed, run, now, search, rebuild, call, workers, score, sheets>>

NextNormalize ==
  \/ NormalizeOnce
  \/ NormalizeTwice

SpecNormalize == InitNormalize /\ [][NextNormalize]_vars

(***************************************************************************)
(* Rebuild against per-event upsert: over a store whose events have        *)
(* genres, artists and ticket URLs, a full rebuild runs and indexEvent is  *)
(* called for single events, the engine answering every request.           *)
(***************************************************************************)

MaxRelated == 2

GenreNames == {"gnawa", "jazz"}
ArtistNames == {"oum"}

\* Two events from ingestion: event 1 in Fes, event 2 in a city the cities
\* table does not have.
ParityStore ==
  Bind(ProcessRaw(EmptyDb, RecA1, 0).db, LAMBDA first : ProcessRaw(first, RecC4, 0).db)

InitParity ==
  /\ db = ParityStore
  /\ feed = {}
  /\ run = IdleRun
  /\ now = 0
  /\ search = NoCollection
  /\ rebuild = IdleRebuild
  /\ call = NoCall
  /\ workers = NoWorkers
  /\ score = NoScore
  /\ norm = NoName
  /\ sheets = ColdSheets

RelatedRows(store) ==
  Len(store.eventGenres) + Len(store.eventArtists) + Len(store.eventTicketUrls)

\* A row is added to event_genres, event_artists or event_ticket_urls.
ParityRelate ==
  /\ RelatedRows(db) < MaxRelated
  /\ \E e \in EventIds(db) :
       \/ \E name \in GenreNames :
            db' = [db EXCEPT !.eventGenres = Append(@, [eventId |-> e, name |-> name])]
       \/ \E name \in ArtistNames :
            db' = [db EXCEPT !.eventArtists = Append(@, [eventId |-> e, name |-> name])]
       \/ db' = [db EXCEPT !.eventTicketUrls = Append(@, [eventId |-> e])]
  /\ rebuild' = IdleRebuild
  /\ call' = NoCall
  /\ UNCHANGED <<feed, run, now, search, workers, score, norm, sheets>>

\* The status of an event changes in the store.
ParityStatus ==
  /\ \E e \in EventIds(db), status \in Statuses :
       /\ status # db.events[e].status
       /\ db' = updateEvent(db, e, [status |-> status])
  /\ rebuild' = IdleRebuild
  /\ call' = NoCall
  /\ UNCHANGED <<feed, run, now, search, workers, score, norm, sheets>>

\* fullReindex() runs to its end.
ParityReindex ==
  /\ \E done \in {fullReindex(db, search, "ok", "ok", {}, {})} :
       /\ search' = done.search
       /\ rebuild' = [IdleRebuild EXCEPT !.pc = "done", !.indexed = done.indexed]
  /\ call' = NoCall
  /\ UNCHANGED <<db, feed, run, now, workers, score, norm, sheets>>

\* indexEvent(eventId) runs to its end.
ParityIndexEvent ==
  \E e \in EventIds(db) : IndexEvent(e, "ok")

NextParity ==
  \/ ParityRelate
  \/ ParityStatus
  \/ ParityReindex
  \/ ParityIndexEvent

SpecParity == InitParity /\ [][NextParity]_vars

(***************************************************************************)
(* The sheets client: fetchEvents and its process-local cache. Time is in  *)
(* minutes. Each call is two steps, the check of the cache with the query  *)
(* sent, and the answer of the query; calls of one process can overlap.    *)
(***************************************************************************)

\* 5 * 60 * 1000 ms
CACHE_TTL == 5

MaxClock == 6

\* The published rows of the table 'festivals', as lists of event ids.
TableLists == {<<>>, <<"e1">>, <<"e1", "e2">>}

\* Variant: a loaded cache never expires.
CacheFresh_NoExpiry(client) == client.cachedEvents.loaded

\* _cachedEvents && Date.now() - _cacheTimestamp < CACHE_TTL
CacheFresh(client) ==
  /\ client.cachedEvents.loaded
  /\ client.clock - client.cacheTimestamp < CACHE_TTL

InitSheets ==
  /\ db = EmptyDb
  /\ feed = {}
  /\ run = IdleRun
  /\ now = 0
  /\ search = NoCollection
  /\ rebuild = IdleRebuild
  /\ call = NoCall
  /\ workers = NoWorkers
  /\ score = NoScore
  /\ norm = NoName
  /\ \E rows \in TableLists : sheets = [ColdSheets EXCEPT !.table = rows]

\* Someone edits the published rows.
EditTable ==
  /\ \E rows \in TableLists \ {sheets.table} : sheets' = [sheets EXCEPT !.table = rows]
  /\ UNCHANGED <<db, feed, run, now, search, rebuild, call, workers, score, norm>>

\* A minute passes.
ClockTick ==
  /\ sheets.clock < MaxClock
  /\ sheets' = [sheets EXCEPT !.clock = @ + 1]
  /\ UNCHANGED <<db, feed, run, now, search, rebuild, call, workers, score, norm>>

\* fetchEvents() with a fresh cache: returns the cached list.
FetchCached(c) ==
  /\ sheets.calls[c].pc = "idle"
  /\ CacheFresh(sheets)
  /\ sheets' = [sheets EXCEPT !.calls[c] =
                  [IdleCall EXCEPT !.pc = "returned", !.result = sheets.cachedEvents.events]]
  /\ UNCHANGED <<db, feed, run, now, search, rebuild, call, workers, score, norm>>

\* fetchEvents() without a fresh cache: the query is sent and reads the table.
FetchQuery(c) ==
  /\ sheets.calls[c].pc = "idle"
  /\ ~CacheFresh(sheets)
  /\ sheets' = [sheets EXCEPT !.calls[c] =
                  [IdleCall EXCEPT !.pc = "querying", !.read = sheets.table,
                                   !.queried = TRUE]]
  /\ UNCHANGED <<db, feed, run, now, search, rebuild, call, workers, score, norm>>

\* The query resolves: the list is cached with the time of now and returned.
FetchLoaded(c) ==
  /\ sheets.calls[c].pc = "querying"
  /\ sheets' = [sheets EXCEPT !.cachedEvents = [loaded |-> TRUE, events |-> sheets.calls[c].read],
                              !.cacheTimestamp = sheets.clock,
                              !.lastLoadAt = sheets.clock,
                              !.lastCached = sheets.cachedEvents.events,
                              !.calls[c].pc = "returned",
                              !.calls[c].result = sheets.calls[c].read]
  /\ UNCHANGED <<db, feed, run, now, search, rebuild, call, workers, score, norm>>

\* Variant: a failed query stamps the cache as if it had been refreshed.
FetchFailed_Restamps(c) ==
  /\ sheets.calls[c].pc = "querying"
  /\ sheets' = [sheets EXCEPT !.cacheTimestamp = sheets.clock,
                              !.calls[c].pc = "returned",
                              !.calls[c].failed = TRUE,
                              !.calls[c].result = IF sheets.cachedEvents.loaded
                                                  THEN sheets.cachedEvents.events ELSE <<>>]
  /\ UNCHANGED <<db, feed, run, now, search, rebuild, call, workers, score, norm>>

\* The query fails: the cached list is returned whatever its age, or [].
FetchFailed(c) ==
  /\ sheets.calls[c].pc = "querying"
  /\ sheets' = [sheets EXCEPT !.calls[c].pc = "returned",
                              !.calls[c].failed = TRUE,
                              !.calls[c].result = IF sheets.cachedEvents.loaded
                                                  THEN sheets.cachedEvents.events ELSE <<>>]
  /\ UNCHANGED <<db, feed, run, now, search, rebuild, call, workers, score, norm>>

\* The caller has its list; the next request can come.
FetchDone(c) ==
  /\ sheets.calls[c].pc = "returned"
  /\ sheets' = [sheets EXCEPT !.calls[c] = IdleCall]
  /\ UNCHANGED <<db, feed, run, now, search, rebuild, call, workers, score, norm>>

NextSheets ==
  \/ EditTable
  \/ ClockTick
  \/ \E c \in Callers :
       \/ FetchCached(c)
       \/ FetchQuery(c)
       \/ FetchLoaded(c)
       \/ FetchFailed(c)
       \/ FetchDone(c)

SpecSheets == InitSheets /\ [][NextSheets]_vars

(***************************************************************************)
(* The request handlers GET /api/events and GET /api/search over the       *)
(* sheets client. A handler continues in the turn in which its fetchEvents *)
(* call returns, before any other event is processed: filter and map make  *)
(* a new array, sort orders the array it is called on.                     *)
(***************************************************************************)

\* The rows of the table by id: e1 starts first, e2 is pinned.
SheetEvent(id) ==
  [ id |-> id,
    start_date |-> IF id = "e1" THEN 1 ELSE 2,
    is_pinned |-> id = "e2",
    city_slug |-> IF id = "e1" THEN "fes" ELSE "rabat",
    words |-> IF id = "e1" THEN {"gnaoua", "fes"} ELSE {"mawazine", "rabat"},
    name |-> IF id = "e1" THEN "gnaoua" ELSE "mawazine" ]

\* The query strings and city filters of the requests; "" is none.
Queries == {"", "fes"}
CityFilters == {"", "fes"}

SheetIds == {"e1", "e2"}

RECURSIVE InsertOrdered(_, _, _)
\* x, which came before the elements of ordered, placed after those that
\* precede it and before the others.
InsertOrdered(x, ordered, precedes) ==
  IF ordered = <<>> THEN <<x>>
  ELSE IF precedes[<<Head(ordered), x>>]
  THEN <<Head(ordered)>> \o InsertOrdered(x, Tail(ordered), precedes)
  ELSE <<x>> \o ordered

RECURSIVE SortedBy(_, _)
\* Array.prototype.sort with a comparator: a stable sort; precedes[a, b] is
\* 'the comparator returns a negative number for (a, b)'.
SortedBy(list, precedes) ==
  IF list = <<>> THEN <<>>
  ELSE InsertOrdered(Head(list), SortedBy(Tail(list), precedes), precedes)

\* The default comparator of both handlers: pinned first, then by date.
PinnedFirst ==
  [p \in SheetIds \X SheetIds |->
     \/ SheetEvent(p[1]).is_pinned /\ ~SheetEvent(p[2]).is_pinned
     \/ /\ SheetEvent(p[1]).is_pinned = SheetEvent(p[2]).is_pinned
        /\ SheetEvent(p[1]).start_date < SheetEvent(p[2]).start_date]

\* searchEvents: the events whose searchable text includes the query word.
searchEvents(events, q) ==
  IF q = "" THEN events
  ELSE SelectSeq(events, LAMBDA e : q \in SheetEvent(e).words)

ScoreName == 10
ScoreCity == 3
ScorePinned == 5

scoreEvent(e, q) ==
  (IF SheetEvent(e).name = q THEN ScoreName ELSE 0)
    + (IF SheetEvent(e).city_slug = q THEN ScoreCity ELSE 0)
    + (IF SheetEvent(e).is_pinned THEN ScorePinned ELSE 0)

\* What a handler does with the array fetchEvents returned: the response, and
\* sortedInPlace, TRUE when the array it sorted is the returned one.
handler(route, q, city, events) ==
  LET searched == IF route = "search" THEN searchEvents(events, q) ELSE events
      filtered == IF city # "" THEN SelectSeq(searched, LAMBDA e : SheetEvent(e).city_slug = city)
                  ELSE searched
  IN  IF route = "search" /\ q # ""
      THEN [response |-> SortedBy(filtered, [p \in SheetIds \X SheetIds |->
                                              scoreEvent(p[2], q) < scoreEvent(p[1], q)]),
            sortedInPlace |-> FALSE]
      ELSE [response |-> SortedBy(filtered, PinnedFirst),
            sortedInPlace |-> city = ""]

\* No call has returned to a handler that has not run yet.
NoHandlerDue == \A c \in Callers : sheets.calls[c].pc # "returned"

\* The handler of call c runs to its response. The array it was given is the
\* cached one whenever a cached list exists.
Handle(c, route, q, city) ==
  /\ sheets.calls[c].pc = "returned"
  /\ \E done \in {handler(route, q, city, sheets.calls[c].result)} :
       sheets' = [sheets EXCEPT
         !.cachedEvents.events =
            IF done.sortedInPlace /\ sheets.cachedEvents.loaded THEN done.response ELSE @,
         !.calls[c] = [sheets.calls[c] EXCEPT !.pc = "responded", !.result = done.response]]
  /\ UNCHANGED <<db, feed, run, now, search, rebuild, call, workers, score, norm>>

\* The response is sent; the next request can come.
Respond(c) ==
  /\ sheets.calls[c].pc = "responded"
  /\ sheets' = [sheets EXCEPT !.calls[c] = IdleCall]
  /\ UNCHANGED <<db, feed, run, now, search, rebuild, call, workers, score, norm>>

NextHandlers ==
  \/ NoHandlerDue /\ EditTable
  \/ NoHandlerDue /\ ClockTick
  \/ \E c \in Callers : NoHandlerDue /\ FetchCached(c)
  \/ \E c \in Callers : NoHandlerDue /\ FetchQuery(c)
  \/ \E c \in Callers : NoHandlerDue /\ FetchLoaded(c)
  \/ \E c \in Callers : NoHandlerDue /\ FetchFailed(c)
  \/ \E c \in Callers, q \in Queries, city \in CityFilters :
       \/ Handle(c, "events", "", city)
       \/ Handle(c, "search", q, city)
  \/ \E c \in Callers : Respond(c)

SpecHandlers == InitSheets /\ [][NextHandlers]_vars

(***************************************************************************)
(* Properties                                                              *)
(***************************************************************************)

SameRecord(c, d) ==
  /\ c.rawName = d.rawName
  /\ c.rawStartDate = d.rawStartDate
  /\ c.rawCity = d.rawCity
  /\ c.sourceId = d.sourceId
  /\ c.externalId = d.externalId

RowsOf(eventId) == SelectSeq(db.eventSources, LAMBDA r : r.eventId = eventId)

\* C2 (at-most-one-create): when the same upstream record has been ingested
\* twice in a row into a store that did not know it, exactly one event exists
\* for it and exactly two EventSource rows are linked to that event: the
\* second ingestion merges into the event the first one created, and in a
\* store that held nothing else there is one event and two rows in all.
C2_SameRecordTwiceOneEvent ==
  /\ \A k \in DOMAIN db.candidates :
       LET c == db.candidates[k]
       IN  (/\ k + 1 \in DOMAIN db.candidates
            /\ db.candidates[k + 1].processed
            /\ SameRecord(c, db.candidates[k + 1])
            /\ c.outcome = "create")
           => /\ db.candidates[k + 1].outcome = "merge"
              /\ db.candidates[k + 1].matchedEventId = c.matchedEventId
              /\ Cardinality({f \in db.fingerprints :
                   /\ f.type = "exact"
                   /\ f.value = FingerprintOf(c.fingerprints, "exact").value}) = 1
              /\ (k + 1 = Len(db.candidates) => Len(RowsOf(c.matchedEventId)) = 2)
  /\ (/\ Len(db.candidates) = 2
      /\ db.candidates[2].processed
      /\ SameRecord(db.candidates[1], db.candidates[2]))
     => /\ Cardinality(EventIds(db)) = 1
        /\ Len(db.eventSources) = 2
        /\ \A i \in DOMAIN db.eventSources : db.eventSources[i].eventId \in EventIds(db)

\* Reached: a record ingested twice in a row, both candidates processed.
C2_Witness ==
  /\ Len(db.candidates) = 2
  /\ db.candidates[2].processed
  /\ SameRecord(db.candidates[1], db.candidates[2])
  /\ db.candidates[1].outcome = "create"

\* C6 (provenance coverage): every event of the store, all of them created
\* by ingestion, has at least one EventSource row linked to it.
C6_ProvenanceCoverage ==
  \A e \in EventIds(db) : \E i \in DOMAIN db.eventSources : db.eventSources[i].eventId = e

\* Reached: an event created by one ingestion and merged into by another.
C6_Witness ==
  \E e \in EventIds(db) : Len(RowsOf(e)) >= 2

Bucket(candidate, type) ==
  {f.eventId : f \in {g \in db.fingerprints :
     g.type = type /\ g.value = FingerprintOf(candidate.fingerprints, type).value}}

\* C8 (resolver order, first match wins): whenever a record is about to be
\* resolved, the resolver answers merge/0.95/exact when an event owns the
\* candidate's exact fingerprint; else merge/fuzzy_name at the weighted
\* similarity of an event of the fuzzy_name bucket scoring at least 0.85; else
\* review/date_location at the name similarity of an event of the
\* date_location bucket scoring at least 0.70; else create/1.0/none with no
\* existing event.
C8_ResolverOrder ==
  (run.pc = "records" /\ run.rawEvents # <<>>) =>
    LET c == normalizeCandidate(Head(run.rawEvents))
        r == deduplicateCandidate(db, c)
        exact == Bucket(c, "exact")
        fuzzy == {e \in Bucket(c, "fuzzy_name") :
                    calculateSimilarity(c, db.events[e]) >= 850000}
        dateLoc == {e \in Bucket(c, "date_location") :
                      jaroWinkler(c.normalizedName, normalizeName(db.events[e].name))
                        >= 700000}
    IN  IF exact # {}
        THEN /\ r.action = "merge" /\ r.matchType = "exact" /\ r.confidence = 950000
             /\ r.existingEventId \in exact
        ELSE IF fuzzy # {}
        THEN /\ r.action = "merge" /\ r.matchType = "fuzzy_name"
             /\ r.existingEventId \in fuzzy
             /\ r.confidence = calculateSimilarity(c, db.events[r.existingEventId])
        ELSE IF dateLoc # {}
        THEN /\ r.action = "review" /\ r.matchType = "date_location"
             /\ r.existingEventId \in dateLoc
             /\ r.confidence = jaroWinkler(c.normalizedName,
                                 normalizeName(db.events[r.existingEventId].name))
        ELSE /\ r.action = "create" /\ r.matchType = "none" /\ r.confidence = 1000000
             /\ r.existingEventId = NULL

\* Reached: a record about to be resolved that no event matches exactly while
\* both its fuzzy_name bucket and its date_location bucket hold an event, so
\* that the order of the rules decides between merge and review.
C8_Witness ==
  /\ run.pc = "records"
  /\ run.rawEvents # <<>>
  /\ LET c == normalizeCandidate(Head(run.rawEvents))
     IN  /\ Bucket(c, "exact") = {}
         /\ Bucket(c, "fuzzy_name") # {}
         /\ Bucket(c, "date_location") # {}
         /\ deduplicateCandidate(db, c).matchType = "fuzzy_name"

\* C9 (date disagreement triggers review), as claimed: when an event exists
\* with a candidate's normalized name and city and a start date one day
\* before the candidate's, and no event owns the candidate's exact
\* fingerprint, the resolver returns review/date_location; and a candidate
\* processed in that situation is in the review queue and created no event.
C9_DateDisagreementReview ==
  /\ \A raw \in UpstreamRecords :
       LET c == normalizeCandidate(raw)
           r == deduplicateCandidate(db, c)
       IN  (/\ Bucket(c, "exact") = {}
            /\ \E e \in EventIds(db) :
                 /\ normalizeName(db.events[e].name) = c.normalizedName
                 /\ db.events[e].cityId = c.cityId
                 /\ c.startDate = db.events[e].startDate + 1)
           => r.action = "review" /\ r.matchType = "date_location"
  /\ \A k \in DOMAIN db.candidates :
       LET c == db.candidates[k]
       IN  (/\ c.processed
            /\ c.outcome = "create"
            /\ \E e \in EventIds(db) :
                 /\ e < c.matchedEventId
                 /\ normalizeName(db.events[e].name) = c.normalizedName
                 /\ db.events[e].cityId = c.cityId
                 /\ c.startDate = db.events[e].startDate + 1)
           => FALSE

\* C10 (overwrite on merge), as claimed: when the candidate processed last was
\* merged, and its source is strictly more reliable than every source linked
\* to the event before that merge, the event carries the candidate's raw
\* name, start date, end date and venue.
C10_OverwriteOnMerge ==
  LET k == Len(db.candidates)
      c == db.candidates[k]
      rows == RowsOf(c.matchedEventId)
      before == SubSeq(rows, 1, Len(rows) - 1)
  IN  (/\ k > 0
       /\ c.processed
       /\ c.outcome = "merge"
       /\ \A i \in DOMAIN before :
            getSource(c.sourceId).reliabilityScore
              > getSource(before[i].sourceId).reliabilityScore)
      => /\ db.events[c.matchedEventId].name = c.rawName
         /\ db.events[c.matchedEventId].startDate = c.startDate
         /\ db.events[c.matchedEventId].endDate = c.endDate
         /\ db.events[c.matchedEventId].venueId = c.venueId

\* C3 (atomic candidate cycle under concurrent runs), as claimed: whatever
\* the interleaving of two runs, no two events own the same exact fingerprint.
C3_OneEventPerExactFingerprint ==
  \A f \in db.fingerprints : \A g \in db.fingerprints :
    (f.type = "exact" /\ g.type = "exact" /\ f.value = g.value) => f.eventId = g.eventId

\* C7 (confidence bounds), as claimed: whatever the event's sources,
\* completeness, agreement and verification time relative to the time of
\* scoring, the score the scorer returns and every stored confidence score
\* lie between 0 and 1.
C7_ConfidenceBounds ==
  /\ score.value # NULL => (0 <= score.value /\ score.value <= ConfOne)
  /\ \A e \in EventIds(db) :
       0 <= db.events[e].confidenceScore /\ db.events[e].confidenceScore <= ConfOne

IndexableEvents(store) == {e \in EventIds(store) : store.events[e].status \in Indexable}

\* The collection holds exactly one document for each of these events and no other.
OneDocumentEach(collection, events) ==
  /\ collection.exists
  /\ {d.id : d \in collection.docs} = {ToString(e) : e \in events}
  /\ Cardinality(collection.docs) = Cardinality(events)

C4_ArchivedNeverInSearch ==
  \A i \in DOMAIN db.editorialActions :
    db.editorialActions[i].actionType = "archive"
      => ~HasDocument(search, db.editorialActions[i].eventId)

\* C5 (upsert_event), as claimed: when an indexEvent call has completed,
\* the collection holds a document with the id exactly when the event exists
\* with status announced or confirmed.
C5_UpsertLeavesDocumentIffIndexable ==
  (call.op = "indexEvent" /\ call.completed)
    => (HasDocument(search, call.eventId) <=> call.eventId \in IndexableEvents(db))

\* The candidate row the step has just staged and marked, if it did.
Staged(before, after) == Len(after.candidates) = Len(before.candidates) + 1

\* C11 (review makes no event mutation): every step that processes a record
\* whose resolution is review leaves the event rows, the EventSource rows and
\* the fingerprint rows as they were, and adds exactly the candidate to the
\* review queue.
C11_ReviewMutatesNoEvent ==
  [][(Staged(db, db') /\ db'.candidates[Len(db'.candidates)].outcome = "review")
       => /\ db'.events = db.events
          /\ db'.eventSources = db.eventSources
          /\ db'.fingerprints = db.fingerprints
          /\ Len(db'.reviewQueue) = Len(db.reviewQueue) + 1
          /\ db'.reviewQueue[Len(db'.reviewQueue)].candidateId = Len(db'.candidates)
          /\ SubSeq(db'.reviewQueue, 1, Len(db.reviewQueue)) = db.reviewQueue]_vars

\* Reached: a record resolved to review has been processed next to an event.
C11_Witness ==
  /\ db.reviewQueue # <<>>
  /\ \E i \in DOMAIN db.candidates :
       db.candidates[i].processed /\ db.candidates[i].outcome = "review"
  /\ EventIds(db) # {}

\* C12 (idempotent delete): a removeFromIndex call always completes; on an id
\* that has no document it leaves the collection as it was, and a second
\* call, whatever the engine answers, gives the result of the first.
C12_IdempotentDelete ==
  /\ call.op = "removeFromIndex" => call.completed
  /\ \A eventId \in SyncEventIds : \A outcome \in EngineOutcomes :
       ~HasDocument(search, eventId)
         => LET once == removeFromIndex(search, eventId, outcome)
            IN  /\ once.completed
                /\ once.search = search
                /\ \A again \in EngineOutcomes :
                     removeFromIndex(once.search, eventId, again) = once

\* Reached: removeFromIndex has returned for an id that never had a document,
\* in a collection that holds the document of another event.
C12_Witness ==
  /\ call.op = "removeFromIndex"
  /\ call.eventId \notin EventIds(db)
  /\ search.exists
  /\ search.docs # {}

Applied(command, eventId) ==
  /\ Len(db'.editorialActions) = Len(db.editorialActions) + 1
  /\ db'.editorialActions[Len(db'.editorialActions)].actionType = command
  /\ db'.editorialActions[Len(db'.editorialActions)].eventId = eventId

\* C14 (editorial merge), as claimed: every step in which merge(keep, lose)
\* completes leaves a snapshot of the prior state of lose, every EventSource
\* row of lose attached to keep, no event lose, a document for keep in the
\* collection and none for lose.
C14_EditorialMerge ==
  [][\A keepId \in EditorialIds : \A mergeId \in EditorialIds :
       ( /\ Applied("merge", keepId)
         /\ db'.editorialActions[Len(db'.editorialActions)].payload = ToString(mergeId)
         /\ call'.completed )
       => /\ \E i \in DOMAIN db'.eventSnapshots :
               /\ db'.eventSnapshots[i].eventId = mergeId
               /\ db'.eventSnapshots[i].data = db.events[mergeId]
          /\ \A i \in DOMAIN db.eventSources :
               db.eventSources[i].eventId = mergeId => db'.eventSources[i].eventId = keepId
          /\ \A i \in DOMAIN db'.eventSources : db'.eventSources[i].eventId # mergeId
          /\ mergeId \notin EventIds(db')
          /\ HasDocument(search', keepId)
          /\ ~HasDocument(search', mergeId)]_vars

\* C15 (status transition out of the indexable set), as claimed: every step
\* in which update_status(event, cancelled) completes on an announced event
\* that has a document leaves the event in the store with status cancelled
\* and no document of it in the collection.
C15_CancelledLeavesSearch ==
  [][\A e \in EditorialIds :
       ( /\ Applied("update_status", e)
         /\ db'.editorialActions[Len(db'.editorialActions)].payload = "cancelled"
         /\ call'.completed
         /\ db.events[e].status = "announced"
         /\ HasDocument(search, e) )
       => /\ e \in EventIds(db')
          /\ db'.events[e].status = "cancelled"
          /\ ~HasDocument(search', e)]_vars

EditorialCommands == {"verify", "pin", "set_significance", "update_status", "merge", "archive"}

\* C16 (audit log): every step that applies an editorial command adds
\* exactly one row to the editorial-actions log, the row of that command and
\* event, and no step changes or removes a row the log already has.
C16_AuditLogAppendOnly ==
  [][/\ SubSeq(db'.editorialActions, 1, Len(db.editorialActions)) = db.editorialActions
     /\ (call'.op \in EditorialCommands /\ db' # db)
          => Applied(call'.op, call'.eventId)]_vars

\* Reached: two commands have been applied to one event and the log holds
\* the rows of both, the row of the command applied last at its end.
C16_Witness ==
  /\ Len(db.editorialActions) = MaxCommands
  /\ call.op \in EditorialCommands
  /\ db.editorialActions[Len(db.editorialActions)].actionType = call.op
  /\ db.editorialActions[1].eventId = db.editorialActions[2].eventId

\* The step has put an error of this kind into the report of the run.
Reported(kind) ==
  /\ Len(run'.report.errors) = Len(run.report.errors) + 1
  /\ run'.report.errors[Len(run'.report.errors)].error = kind

\* C17 (cursor advance): a step that records a failed fetch of a source
\* leaves every last_fetch_at as it was, and a step that changes a source's
\* last_fetch_at is made after that source's fetch has returned its records
\* and they have all been processed, and sets it to the current time.
C17_CursorAdvance ==
  [][/\ Reported("network_timeout") => db'.lastFetchAt = db.lastFetchAt
     /\ \A s \in SourceIds :
          db'.lastFetchAt[s] # db.lastFetchAt[s]
            => /\ run.pc = "records"
               /\ run.rawEvents = <<>>
               /\ run.sourceReport.sourceId = s
               /\ db'.lastFetchAt[s] = now
               /\ \A i \in DOMAIN run'.report.errors : run'.report.errors[i].sourceId # s]_vars

\* Reached: in one run the fetch of one source has failed, the cursor of
\* that source is where it was and the cursor of another source has moved.
C17_Witness ==
  /\ \E i \in DOMAIN run.report.errors :
       /\ run.report.errors[i].error = "network_timeout"
       /\ db.lastFetchAt[run.report.errors[i].sourceId] = NULL
  /\ \E s \in SourceIds : db.lastFetchAt[s] # NULL

\* C18 (per-record failure does not abort), as claimed: a step in which a
\* record fails with a data error while later records of the same source
\* are waiting skips that record only: the later records are still to be
\* processed.
C18_RecordFailureSkipsRecordOnly ==
  [][(Reported("parse_error") /\ Len(run.rawEvents) >= 2)
       => /\ run'.pc = "records"
          /\ run'.rawEvents = Tail(run.rawEvents)]_vars

\* C19 (database_error is fatal for the run), as claimed: once the report of
\* a run holds a database error, the run fetches no further source and moves
\* no cursor.
C19_DatabaseErrorAbortsRun ==
  [][(\E i \in DOMAIN run.report.errors : run.report.errors[i].error = "database_error")
       => /\ run'.pc # "records"
          /\ db'.lastFetchAt = db.lastFetchAt]_vars

\* C20 (normalizer idempotence), as claimed: normalizeName applied to its own
\* result returns that result.
C20_NormalizerIdempotent ==
  norm.passes = 2 => norm.twice = norm.once

\* C21 (fingerprint stability), as claimed: two processed candidates of the
\* same upstream record carry the same four fingerprints and got the same
\* resolver decision.
C21_SameFingerprintsSameDecision ==
  \A i \in DOMAIN db.candidates : \A j \in DOMAIN db.candidates :
    (i < j /\ SameRecord(db.candidates[i], db.candidates[j]))
      => /\ db.candidates[i].fingerprints = db.candidates[j].fingerprints
         /\ db.candidates[i].outcome = db.candidates[j].outcome

\* C21 as the code has it: two candidates of the same upstream record carry
\* the same normalized fields and the same four fingerprints.  When the record
\* is ingested again right after it was ingested, a create is followed by a
\* merge into the event created, a merge by a merge into the same event, and
\* a review by a review against the same event.
C21_SameFingerprintsStableDecision ==
  \A i \in DOMAIN db.candidates : \A j \in DOMAIN db.candidates :
    (i < j /\ SameRecord(db.candidates[i], db.candidates[j]))
      => LET c == db.candidates[i]
             d == db.candidates[j]
         IN  /\ c.fingerprints = d.fingerprints
             /\ Len(c.fingerprints) = 4
             /\ {c.fingerprints[k].type : k \in DOMAIN c.fingerprints}
                  = {"exact", "fuzzy_name", "date_location", "week_location"}
             /\ c.normalizedName = d.normalizedName
             /\ c.startDate = d.startDate
             /\ c.cityId = d.cityId
             /\ j = i + 1 =>
                  /\ d.outcome = (IF c.outcome = "create" THEN "merge" ELSE c.outcome)
                  /\ d.matchedEventId = c.matchedEventId

\* Reached: a record ingested twice in a row after another record, its first
\* decision a review, and a record whose first decision was a merge.
C21_Witness ==
  /\ Len(db.candidates) = 3
  /\ SameRecord(db.candidates[2], db.candidates[3])
  /\ db.candidates[2].outcome = "review"
  /\ db.candidates[3].processed

\* The fingerprints derivable from an event's current name, start date and city.
DerivedFingerprints(event) ==
  LET prints == generateFingerprints([normalizedName |-> normalizeName(event.name),
                                      startDate |-> event.startDate,
                                      cityId |-> event.cityId])
  IN  {[type |-> prints[i].type, value |-> prints[i].value, eventId |-> event.id] :
         i \in DOMAIN prints}

C23_UnknownCityCreateOnly ==
  \A i \in DOMAIN db.candidates :
    (db.candidates[i].processed /\ db.candidates[i].cityId = NULL)
      => /\ db.candidates[i].outcome = "create"
         /\ db.candidates[i].fingerprints = <<>>

\* C24 (concurrent ingestion during a rebuild is safe), as claimed: when the
\* rebuild has returned and every indexEvent call of a status change has
\* completed, the collection holds one document for each indexable event and
\* no other.
C24_RebuildRaceSafe ==
  (rebuild.pc = "done" /\ workers = {}) => OneDocumentEach(search, IndexableEvents(db))

C26_MergesTerminate ==
  <>[](\A w \in Workers : workers[w].pc = "done")

\* Reached: merge(a, b) and merge(b, a) have both ended, one of them merged.
C26_Witness ==
  /\ \A w \in Workers : workers[w].pc = "done"
  /\ workers[1].keepId = workers[2].mergeId
  /\ workers[1].mergeId = workers[2].keepId
  /\ \E w \in Workers : workers[w].merged

MaxAttempts == 3

\* C27 (retry policy), as claimed: a source is flagged as failed with a
\* retriable error only by its third failed fetch attempt of the run, and the
\* run then continues with the next source.
C27_FlaggedAfterThirdAttempt ==
  [][Reported("network_timeout")
       => /\ run.attempts + 1 = MaxAttempts
          /\ run'.pc = "source"
          /\ run'.idx = run.idx + 1]_vars

\* C28 (events are never hard-deleted), as claimed: no step of the editorial
\* commands removes an event row; an event of the store is in the store
\* after every step.
C28_NoHardDelete ==
  [][EventIds(db) \subseteq EventIds(db')]_vars

C30_CacheTTL ==
  [][\A c \in Callers :
       /\ (sheets.calls[c].pc = "idle" /\ sheets'.calls[c].pc = "returned")
            => /\ sheets.lastLoadAt # NULL
               /\ sheets.clock - sheets.lastLoadAt < CACHE_TTL
               /\ sheets'.calls[c].result = sheets.cachedEvents.events
               /\ ~sheets'.calls[c].queried
       /\ (/\ sheets.calls[c].pc = "idle"
           /\ sheets'.calls[c].pc # "idle"
           /\ (sheets.lastLoadAt = NULL \/ sheets.clock - sheets.lastLoadAt >= CACHE_TTL))
            => /\ sheets'.calls[c].pc = "querying"
               /\ sheets'.calls[c].read = sheets.table
       /\ (/\ sheets.calls[c].pc = "querying"
           /\ sheets'.calls[c].pc = "returned"
           /\ ~sheets'.calls[c].failed)
            => /\ sheets'.cachedEvents = [loaded |-> TRUE, events |-> sheets.calls[c].read]
               /\ sheets'.cacheTimestamp = sheets.clock
               /\ sheets'.calls[c].result = sheets.calls[c].read]_vars

\* Reached: a call made CACHE_TTL minutes after the last load has queried the
\* table and returned rows that differ from the list cached until then.
C30_Witness ==
  \E c \in Callers :
    /\ sheets.calls[c].pc = "returned"
    /\ sheets.calls[c].queried
    /\ ~sheets.calls[c].failed
    /\ sheets.clock >= CACHE_TTL
    /\ sheets.lastLoadAt = sheets.clock
    /\ sheets.cachedEvents.events = sheets.calls[c].result
    /\ sheets.lastCached # sheets.calls[c].result
    /\ sheets.lastCached # <<>>

\* The deepest sequence of editorial actions tried to undo one action.
MaxUndo == 2

\* The stores one editorial action away from store: every command on every
\* event it can name.
EditorialSteps(store, at) ==
  UNION {
    {verifyEvent(store, e, at), pinEvent(store, e), archiveEvent(store, e)}
      \cup {setSignificance(store, e, significance) : significance \in SignificanceInputs}
      \cup {updateStatus(store, e, status) : status \in Statuses}
      \cup {mergeEvents(store, e, mergeId) :
              mergeId \in {x \in EventIds(store) \ {e} : ~ReferencedByLog(store, x)}}
    : e \in EventIds(store)}

RECURSIVE EditorialReach(_, _, _)
\* The stores at most k editorial actions away from one of stores.
EditorialReach(stores, at, k) ==
  IF k = 0 THEN stores
  ELSE stores \cup EditorialReach(UNION {EditorialSteps(s, at) : s \in stores}, at, k - 1)

\* The event_sources rows linked to an event.
SourceLinks(store, eventId) ==
  {i \in DOMAIN store.eventSources : store.eventSources[i].eventId = eventId}

\* What an editorial action can change of an event: its flags, its
\* significance, its status and its source links.
EditorialState(store, eventId) ==
  [isVerified |-> store.events[eventId].isVerified,
   isPinned |-> store.events[eventId].isPinned,
   culturalSignificance |-> store.events[eventId].culturalSignificance,
   status |-> store.events[eventId].status,
   links |-> SourceLinks(store, eventId)]

\* The events of before that a step to after removed or changed.
AffectedEvents(before, after) ==
  {e \in EventIds(before) :
     \/ e \notin EventIds(after)
     \/ EditorialState(after, e) # EditorialState(before, e)}

\* C31: every editorial action can be undone: from the store it leaves, some
\* sequence of editorial actions brings every event it removed or changed
\* back to its flags, significance, status, existence and source links.
C31_EditorialActionsReversible ==
  [][db' # db =>
       \E restored \in EditorialReach({db'}, now, MaxUndo) :
          \A e \in AffectedEvents(db, db') :
             /\ e \in EventIds(restored)
             /\ EditorialState(restored, e) = EditorialState(db, e)]_vars

\* The candidate the step staged and merged into event eventId, if it did.
MergedInto(before, after, eventId) ==
  /\ Len(after.candidates) = Len(before.candidates) + 1
  /\ after.candidates[Len(after.candidates)].outcome = "merge"
  /\ after.candidates[Len(after.candidates)].matchedEventId = eventId

\* The canonical attributes a merge may overwrite.
CanonicalAttributes(event) ==
  [name |-> event.name, startDate |-> event.startDate, endDate |-> event.endDate,
   venueId |-> event.venueId, officialWebsite |-> event.officialWebsite]

\* C32: a merge of a candidate whose source is not strictly more reliable
\* than the event's best source leaves the event's canonical attributes as
\* they were, adds exactly one EventSource row, linked to the event, and sets
\* last_verified_at to the time of the merge.
C32_MergeWithoutOverwrite ==
  [][\A e \in EventIds(db) :
       (/\ MergedInto(db, db', e)
        /\ getSource(db'.candidates[Len(db'.candidates)].sourceId).reliabilityScore
             <= BestReliability(db, e))
       => /\ CanonicalAttributes(db'.events[e]) = CanonicalAttributes(db.events[e])
          /\ Len(db'.eventSources) = Len(db.eventSources) + 1
          /\ SubSeq(db'.eventSources, 1, Len(db.eventSources)) = db.eventSources
          /\ db'.eventSources[Len(db'.eventSources)].eventId = e
          /\ db'.eventSources[Len(db'.eventSources)].sourceId
               = db'.candidates[Len(db'.candidates)].sourceId
          /\ db'.events[e].lastVerifiedAt = now]_vars

\* A candidate of a source no more reliable than an earlier source of the
\* event was merged into it, with other attributes than the event's, on a
\* later day than the event was created.
C32_Witness ==
  \E i \in DOMAIN db.candidates :
    /\ db.candidates[i].outcome = "merge"
    /\ db.candidates[i].matchedEventId \in EventIds(db)
    /\ LET e == db.candidates[i].matchedEventId
           rows == getEventSources(db, e)
       IN  /\ Len(rows) >= 2
           /\ rows[Len(rows)].sourceId = db.candidates[i].sourceId
           /\ \E j \in 1..Len(rows) - 1 : rows[Len(rows)].reliability <= rows[j].reliability
           /\ db.events[e].name # db.candidates[i].rawName
           /\ db.events[e].lastVerifiedAt > 0

\* The reliability of the first-party API source of scenario S1, in 1/RelOne.
ApiReliability == 80

\* C33: after the same record of a source of reliability 0.8 has been
\* ingested twice, the event's confidence is 0.35*0.8 + 0.25*completeness
\* + 0.20*0.5 + 0.10*1.0 + 0.10*0.5: agreement 0.5, recency 1.0.
C33_ExactDuplicateConfidence ==
  (/\ Len(db.candidates) = 2
   /\ db.candidates[2].processed
   /\ SameRecord(db.candidates[1], db.candidates[2])
   /\ db.candidates[1].outcome = "create"
   /\ getSource(db.candidates[1].sourceId).reliabilityScore = ApiReliability)
  => LET event == db.events[db.candidates[1].matchedEventId]
     IN  event.confidenceScore
           = WeightedConfidence(Factor(ApiReliability), Completeness(event),
                                FactorOne \div 2, FactorOne, Factor(DefaultAccuracy))

\* C34: full rebuild and per-event upsert agree: once a full rebuild has
\* filled the collection from the store, indexEvent of any event of that
\* store leaves the collection as it is, that is, both index the same events
\* and write the same document for each.
C34_RebuildAndUpsertAgree ==
  [][(/\ rebuild.pc = "done"
      /\ rebuild' = rebuild
      /\ db' = db
      /\ call'.op = "indexEvent")
     => search' = search]_vars

\* Reached: after a full rebuild indexEvent ran for an event with a genre and
\* a ticket URL whose document carries both, while an event without a city
\* row has no document.
C34_Witness ==
  /\ rebuild.pc = "done"
  /\ call.op = "indexEvent"
  /\ call.completed
  /\ \E d \in search.docs :
       /\ d.id = ToString(call.eventId)
       /\ d.genres # <<>>
       /\ d.has_tickets
  /\ \E e \in EventIds(db) : db.events[e].status \in Indexable /\ ~HasDocument(search, e)

\* The store as the scorer reads it during the step: the rows of after, the
\* event's last_verified_at still the one of before (none for a new event).
AtScoring(before, after, eventId) ==
  [after EXCEPT !.events[eventId].lastVerifiedAt =
     IF eventId \in EventIds(before) THEN before.events[eventId].lastVerifiedAt ELSE NULL]

\* C35: every step that changes the set of EventSource rows linked to an
\* event (pipeline create, pipeline merge, editorial merge) leaves the event
\* with the confidence the scorer computes for it in that step.
C35_RescoredOnSourceChange ==
  [][\A e \in EventIds(db') :
       (e \notin EventIds(db) \/ SourceLinks(db', e) # SourceLinks(db, e))
       => db'.events[e].confidenceScore
            = calculateConfidenceScore(AtScoring(db, db', e), e, now)]_vars

\* C36: a fetchEvents call whose query errors still returns: the cached list
\* if there is one, however old, and the empty list otherwise; it leaves the
\* cached list and the cache timestamp as they were, so a cache that was not
\* fresh is not fresh afterwards and the next call queries again.
C36_FetchNeverFails ==
  [][\A c \in Callers :
       (sheets.calls[c].pc = "querying" /\ sheets'.calls[c].failed)
       => /\ sheets'.calls[c].pc = "returned"
          /\ sheets'.calls[c].result
               = IF sheets.cachedEvents.loaded THEN sheets.cachedEvents.events ELSE <<>>
          /\ sheets'.cachedEvents = sheets.cachedEvents
          /\ sheets'.cacheTimestamp = sheets.cacheTimestamp
          /\ (~CacheFresh(sheets) => ~CacheFresh(sheets'))]_vars

\* Reached: a call whose query failed returned a cached list older than the
\* TTL, and the cache is still that list with its old timestamp.
C36_Witness ==
  \E c \in Callers :
    /\ sheets.calls[c].pc = "returned"
    /\ sheets.calls[c].failed
    /\ sheets.cachedEvents.loaded
    /\ sheets.cachedEvents.events # <<>>
    /\ sheets.calls[c].result = sheets.cachedEvents.events
    /\ sheets.clock - sheets.cacheTimestamp >= CACHE_TTL

RECURSIVE SumSeq(_)
SumSeq(numbers) == IF numbers = <<>> THEN 0 ELSE Head(numbers) + SumSeq(Tail(numbers))

\* C38: in every source entry of the run's report created + merged +
\* review_needed equals fetched, and the report's four totals are the sums of
\* those counters over its source entries.
C38_CounterConservation ==
  LET entries == run.report.sources
  IN  /\ \A i \in DOMAIN entries :
           entries[i].created + entries[i].merged + entries[i].reviewNeeded
             = entries[i].fetched
      /\ run.report.totalFetched = SumSeq([i \in DOMAIN entries |-> entries[i].fetched])
      /\ run.report.totalCreated = SumSeq([i \in DOMAIN entries |-> entries[i].created])
      /\ run.report.totalMerged = SumSeq([i \in DOMAIN entries |-> entries[i].merged])
      /\ run.report.totalReviewNeeded
           = SumSeq([i \in DOMAIN entries |-> entries[i].reviewNeeded])

\* Reached: a report with two source entries, one that created an event and
\* one that merged into it, beside the error of a source that failed.
C38_Witness ==
  /\ Len(run.report.sources) >= 2
  /\ run.report.totalFetched >= 2
  /\ run.report.totalCreated >= 1
  /\ run.report.totalMerged >= 1
  /\ run.report.errors # <<>>

\* What the run has counted so far: the totals of its report and the
\* counters of the source in progress.
Counted(r) ==
  [created |-> r.report.totalCreated + r.sourceReport.created,
   merged |-> r.report.totalMerged + r.sourceReport.merged]

\* The merges applied to the store.
MergesApplied(store) ==
  Cardinality({i \in DOMAIN store.candidates : store.candidates[i].outcome = "merge"})

\* C39: the run's report accounts for all the work the run did. From the
\* start of a run to its end every step changes what the run has counted by
\* what it changed in the store, events created and merges applied, so that
\* at the end total_created and total_merged are the run's creations and
\* merges, also after a source failed part-way.
C39_ReportAccountsForWork ==
  [][(run.pc # "idle" /\ run'.pc # "idle")
     => /\ Counted(run').created - Counted(run).created
             = Cardinality(EventIds(db')) - Cardinality(EventIds(db))
        /\ Counted(run').merged - Counted(run).merged
             = MergesApplied(db') - MergesApplied(db)]_vars

====
